---------------------------- MODULE Spec2Model ----------------------------
(***************************************************************************)
(* Model of pymysqlreplication/event.py: the decoders of the non-row       *)
(* binlog events.  One event is decoded from one packet: the packet is a   *)
(* byte buffer with a cursor, the event is the set of attributes the       *)
(* constructor has assigned so far.                                        *)
(*                                                                         *)
(* Representation of values                                                *)
(*   byte        an integer 0..255                                         *)
(*   bytes, str  a sequence of bytes, a sequence of code points            *)
(*   int         up to 24 bits wide: an integer.  32 and 64 bits wide: a   *)
(*               record [neg, mag], mag the decimal digits (most           *)
(*               significant first, no leading zero), since the values do  *)
(*               not fit the model checker's integers.                     *)
(***************************************************************************)
EXTENDS Integers, Sequences, FiniteSets, TLC

VARIABLES
    kind,             \* the event class being constructed
    packet,           \* from_packet: [data, position, read_bytes, server_id]
    event_size,       \* the event_size argument of the constructor
    verify_checksum,  \* the verify_checksum keyword argument
    mysql_version,    \* the mysql_version keyword argument
    ev,               \* the attributes of the event object set so far
    pc,               \* where the constructor is
    err,              \* the exception that ended the constructor, or "none"
    locals,           \* the local variables of the constructor
    src,              \* what the packet was built from (never read by a decoder)
    trace             \* the iterations of the status-variable loop so far
                      \* (never read by a decoder)

vars == <<kind, packet, event_size, verify_checksum, mysql_version, ev, pc,
          err, locals, src, trace>>

-----------------------------------------------------------------------------
(* Sequences *)

Byte == 0..255

Take(s, n) == SubSeq(s, 1, IF n < Len(s) THEN n ELSE Len(s))

Drop(s, n) == SubSeq(s, n + 1, Len(s))

Reverse(s) == [i \in 1..Len(s) |-> s[Len(s) + 1 - i]]

RECURSIVE Concat(_)
Concat(ss) == IF ss = <<>> THEN <<>> ELSE Head(ss) \o Concat(Tail(ss))

Repeat(x, n) == [i \in 1..n |-> x]

-----------------------------------------------------------------------------
(* Integers wider than the model checker's: decimal digits *)

RECURSIVE StripZeros(_)
StripZeros(d) ==
    IF Len(d) > 1 /\ Head(d) = 0 THEN StripZeros(Tail(d)) ELSE d

\* d * m + a on decimal digits, for small m and a.
RECURSIVE MulAddFrom(_, _, _, _)
MulAddFrom(d, i, m, carry) ==
    IF i = 0
    THEN IF carry = 0 THEN <<>>
         ELSE MulAddFrom(d, 0, m, carry \div 10) \o <<carry % 10>>
    ELSE LET t == d[i] * m + carry
         IN  MulAddFrom(d, i - 1, m, t \div 10) \o <<t % 10>>

BigMulAdd(d, m, a) == StripZeros(<<0>> \o MulAddFrom(d, Len(d), m, a))

BigZero == <<0>>

\* An integer small enough for the model checker, as digits.
RECURSIVE DigitsOfNat(_)
DigitsOfNat(n) ==
    IF n < 10 THEN <<n>> ELSE DigitsOfNat(n \div 10) \o <<n % 10>>

\* The value of digits as a model integer; anything of more than 9 digits
\* is larger than any buffer and saturates.
Saturated == 10 ^ 9

RECURSIVE NatOfDigits(_, _)
NatOfDigits(d, acc) ==
    IF d = <<>> THEN acc ELSE NatOfDigits(Tail(d), acc * 10 + Head(d))

NatOf(d) == IF Len(d) > 9 THEN Saturated ELSE NatOfDigits(d, 0)

-----------------------------------------------------------------------------
(* struct.unpack and int.from_bytes *)

Big(neg, mag) == [neg |-> neg, mag |-> mag]

\* The unsigned value of little-endian bytes up to 3 bytes long.
RECURSIVE SmallLE(_)
SmallLE(b) == IF b = <<>> THEN 0 ELSE Head(b) + 256 * SmallLE(Tail(b))

\* The unsigned value of big-endian bytes, as digits.
RECURSIVE DigitsBE(_, _)
DigitsBE(b, acc) ==
    IF b = <<>> THEN acc ELSE DigitsBE(Tail(b), BigMulAdd(acc, 256, Head(b)))

\* int.from_bytes(b, byteorder="big")
int_from_bytes_big(b) == DigitsBE(b, BigZero)

\* struct.unpack("<H"), ("<I") and ("<Q"): unsigned, little-endian.
unpack_unsigned_le(b) == Big(FALSE, DigitsBE(Reverse(b), BigZero))

\* struct.unpack("<q"): two's complement, little-endian.
unpack_signed_le(b) ==
    IF b[Len(b)] < 128
    THEN Big(FALSE, DigitsBE(Reverse(b), BigZero))
    ELSE Big(TRUE, BigMulAdd(DigitsBE(Reverse([i \in 1..Len(b) |-> 255 - b[i]]),
                                      BigZero), 1, 1))

\* struct.unpack(">i"): two's complement, big-endian, 4 bytes; it fits.
unpack_int32_be(b) ==
    (IF b[1] < 128 THEN b[1] ELSE b[1] - 256) * 16777216
        + b[2] * 65536 + b[3] * 256 + b[4]

\* struct.unpack("<d"): the sign, the biased exponent and the fraction bits
\* of an IEEE-754 double.
unpack_double_le(b) ==
    [sign |-> b[8] \div 128,
     exponent |-> (b[8] % 128) * 16 + b[7] \div 16,
     fraction |-> DigitsBE(<<b[7] % 16, b[6], b[5], b[4], b[3], b[2], b[1]>>,
                           BigZero)]

-----------------------------------------------------------------------------
(* Text *)

Minus == 45
Dot == 46
Zero == 48
Backslash == 92

\* "%d" of an integer of the model checker's and of a wide one.
StrOfDigits(d) == [i \in 1..Len(d) |-> Zero + d[i]]

StrOfBig(v) == (IF v.neg THEN <<Minus>> ELSE <<>>) \o StrOfDigits(v.mag)

\* The digits of -n for n < 0: -(n + 1) is one the model checker can hold.
DigitsOfNeg(n) == BigMulAdd(DigitsOfNat(0 - (n + 1)), 1, 1)

StrOfInt(n) ==
    IF n < 0 THEN <<Minus>> \o StrOfDigits(DigitsOfNeg(n))
    ELSE StrOfDigits(DigitsOfNat(n))

\* "%0*d" % (width, n) for n >= 0 given as digits.
ZeroPad(d, width) ==
    StrOfDigits(IF Len(d) < width THEN Repeat(0, width - Len(d)) \o d ELSE d)

\* "%09d" % n and "%0*d" % (width, n) of an integer: the sign comes first
\* and counts in the width.
ZeroPadInt(n, width) ==
    IF n < 0
    THEN <<Minus>> \o ZeroPad(DigitsOfNeg(n), width - 1)
    ELSE ZeroPad(DigitsOfNat(n), width)

IsCont(b) == b >= 128 /\ b <= 191

\* The length of the well-formed UTF-8 sequence b starts with, 0 if none.
Utf8Len(b) ==
    IF b = <<>> THEN 0
    ELSE IF b[1] < 128 THEN 1
    ELSE IF b[1] >= 194 /\ b[1] <= 223
         THEN IF Len(b) >= 2 /\ IsCont(b[2]) THEN 2 ELSE 0
    ELSE IF b[1] >= 224 /\ b[1] <= 239
         THEN IF /\ Len(b) >= 3 /\ IsCont(b[2]) /\ IsCont(b[3])
                 /\ (b[1] = 224 => b[2] >= 160)
                 /\ (b[1] = 237 => b[2] <= 159)
              THEN 3 ELSE 0
    ELSE IF b[1] >= 240 /\ b[1] <= 244
         THEN IF /\ Len(b) >= 4 /\ IsCont(b[2]) /\ IsCont(b[3]) /\ IsCont(b[4])
                 /\ (b[1] = 240 => b[2] >= 144)
                 /\ (b[1] = 244 => b[2] <= 143)
              THEN 4 ELSE 0
    ELSE 0

Utf8Point(b, n) ==
    CASE n = 1 -> b[1]
      [] n = 2 -> (b[1] - 192) * 64 + (b[2] - 128)
      [] n = 3 -> (b[1] - 224) * 4096 + (b[2] - 128) * 64 + (b[3] - 128)
      [] n = 4 -> (b[1] - 240) * 262144 + (b[2] - 128) * 4096
                      + (b[3] - 128) * 64 + (b[4] - 128)

\* bytes.decode(): strict UTF-8.  [ok, val]
\* A long text is decoded in two parts cut at the first byte of its second
\* half that starts a character: no continuation byte starts one, and a run
\* of four continuation bytes belongs to no character.
RECURSIVE decode(_)
decode(b) ==
    IF b = <<>> THEN [ok |-> TRUE, val |-> <<>>]
    ELSE IF Len(b) <= 8
    THEN LET n == Utf8Len(b)
         IN  IF n = 0 THEN [ok |-> FALSE, val |-> <<>>]
             ELSE LET rest == decode(Drop(b, n))
                  IN  [ok |-> rest.ok,
                       val |-> <<Utf8Point(b, n)>> \o rest.val]
    ELSE LET starts == {i \in (Len(b) \div 2 + 1)..Len(b) : ~IsCont(b[i])}
         IN  IF starts = {} THEN [ok |-> FALSE, val |-> <<>>]
             ELSE LET cut == CHOOSE i \in starts : \A j \in starts : i <= j
                      left == decode(SubSeq(b, 1, cut - 1))
                      right == decode(SubSeq(b, cut, Len(b)))
                  IN  IF left.ok /\ right.ok
                      THEN [ok |-> TRUE, val |-> left.val \o right.val]
                      ELSE [ok |-> FALSE, val |-> <<>>]

-----------------------------------------------------------------------------
(* The packet: the byte cursor the decoders read from.  data holds the OK  *)
(* byte, the 19 header bytes, the event body and what follows it; position *)
(* is the cursor into data and read_bytes the count of bytes consumed      *)
(* since the header.  A read of more bytes than remain fails and leaves    *)
(* the packet as it was.                                                   *)

Remaining(pk) == Len(pk.data) - pk.position

Underrun(pk) == [ok |-> FALSE, val |-> <<>>, pk |-> pk]

\* packet.read(size)
read(pk, size) ==
    IF size < 0 \/ size > Remaining(pk) THEN Underrun(pk)
    ELSE [ok |-> TRUE,
          val |-> SubSeq(pk.data, pk.position + 1, pk.position + size),
          pk |-> [pk EXCEPT !.position = @ + size, !.read_bytes = @ + size]]

\* packet.advance(size)
advance(pk, size) ==
    IF size < 0 \/ size > Remaining(pk) THEN Underrun(pk)
    ELSE [ok |-> TRUE, val |-> <<>>,
          pk |-> [pk EXCEPT !.position = @ + size, !.read_bytes = @ + size]]

\* packet.rewind(position): the cursor goes back to an absolute position;
\* the count of consumed bytes is left alone.
rewind(pk, position) ==
    IF position > pk.position THEN Underrun(pk)
    ELSE [ok |-> TRUE, val |-> <<>>, pk |-> [pk EXCEPT !.position = position]]

WithVal(r, v) == [r EXCEPT !.val = v]

read_uint8(pk) ==
    LET r == read(pk, 1) IN IF r.ok THEN WithVal(r, r.val[1]) ELSE r

read_uint16(pk) ==
    LET r == read(pk, 2) IN IF r.ok THEN WithVal(r, SmallLE(r.val)) ELSE r

read_uint24(pk) ==
    LET r == read(pk, 3) IN IF r.ok THEN WithVal(r, SmallLE(r.val)) ELSE r

read_uint32(pk) ==
    LET r == read(pk, 4)
    IN  IF r.ok THEN WithVal(r, unpack_unsigned_le(r.val)) ELSE r

read_uint64(pk) ==
    LET r == read(pk, 8)
    IN  IF r.ok THEN WithVal(r, unpack_unsigned_le(r.val)) ELSE r

read_int64(pk) ==
    LET r == read(pk, 8)
    IN  IF r.ok THEN WithVal(r, unpack_signed_le(r.val)) ELSE r

\* packet.read_string(): the bytes up to the next null byte, which is
\* consumed and not returned.
RECURSIVE read_string_from(_, _)
read_string_from(pk, acc) ==
    LET r == read(pk, 1)
    IN  IF ~r.ok THEN r
        ELSE IF r.val[1] = 0 THEN WithVal(r, acc)
        ELSE read_string_from(r.pk, Append(acc, r.val[1]))

read_string(pk) == read_string_from(pk, <<>>)

-----------------------------------------------------------------------------
(* zlib.crc32 *)

\* The 32-bit register is kept as its two 16-bit halves <<high, low>>.
\* 0xEDB88320
PolyHigh == 60856
PolyLow == 33568

\* a XOR b on n bits
RECURSIVE XorBits(_, _, _)
XorBits(a, b, n) ==
    IF n = 0 THEN 0
    ELSE ((a + b) % 2) + 2 * XorBits(a \div 2, b \div 2, n - 1)

XorNibble == [a \in 0..15 |-> [b \in 0..15 |-> XorBits(a, b, 4)]]

Xor16(a, b) ==
    XorNibble[a % 16][b % 16]
        + 16 * XorNibble[(a \div 16) % 16][(b \div 16) % 16]
        + 256 * XorNibble[(a \div 256) % 16][(b \div 256) % 16]
        + 4096 * XorNibble[a \div 4096][b \div 4096]

\* crc = (crc >> 1) ^ 0xEDB88320 if crc & 1 else crc >> 1
CrcShift(c) ==
    LET hi == c[1] \div 2
        lo == c[2] \div 2 + (c[1] % 2) * 32768
    IN  IF c[2] % 2 = 1
        THEN <<Xor16(hi, PolyHigh), Xor16(lo, PolyLow)>>
        ELSE <<hi, lo>>

RECURSIVE CrcShifts(_, _)
CrcShifts(c, n) ==
    IF n = 0 THEN c
    ELSE LET d == CrcShift(c) IN IF d = d THEN CrcShifts(d, n - 1) ELSE d

\* The table of the byte-wise algorithm: eight shifts of each byte.
CrcTable == [n \in 0..255 |-> CrcShifts(<<0, n>>, 8)]

\* crc = (crc >> 8) ^ table[(crc ^ b) & 0xFF]
CrcByte(c, b) ==
    LET t == CrcTable[Xor16(c[2] % 256, b)]
    IN  <<Xor16(c[1] \div 256, t[1]),
          Xor16(c[2] \div 256 + (c[1] % 256) * 256, t[2])>>

\* The bytes b[lo] .. b[hi] fed in order, by halves.
RECURSIVE CrcRange(_, _, _, _)
CrcRange(c, b, lo, hi) ==
    IF lo = hi THEN CrcByte(c, b[lo])
    ELSE LET mid == (lo + hi) \div 2
             d == CrcRange(c, b, lo, mid)
         IN  IF d = d THEN CrcRange(d, b, mid + 1, hi) ELSE d

CrcBytes(c, b) == IF b = <<>> THEN c ELSE CrcRange(c, b, 1, Len(b))

\* zlib.crc32(data).to_bytes(4, byteorder="little")
crc32_le(data) ==
    LET c == CrcBytes(<<65535, 65535>>, data)
        hi == 65535 - c[1]
        lo == 65535 - c[2]
    IN  <<lo % 256, lo \div 256, hi % 256, hi \div 256>>

-----------------------------------------------------------------------------
(* The constructor's state: the packet, the attributes set so far and, once *)
(* a call has raised, the exception.                                        *)

NoAttrs == [x \in {} |-> 0]

Set(e, name, v) ==
    [x \in DOMAIN e \cup {name} |-> IF x = name THEN v ELSE e[x]]

Has(e, name) == name \in DOMAIN e

Ctor(pk, e) == [pk |-> pk, ev |-> e, ok |-> TRUE, err |-> "none"]

Raise(c, what) == [c EXCEPT !.ok = FALSE, !.err = what]

\* self.<name> = <a read of the packet>
Assign(c, name, r) ==
    IF ~c.ok THEN c
    ELSE IF ~r.ok THEN Raise(c, "Underrun")
    ELSE [c EXCEPT !.pk = r.pk, !.ev = Set(@, name, r.val)]

\* a read of the packet whose value is dropped
Skip(c, r) ==
    IF ~c.ok THEN c
    ELSE IF ~r.ok THEN Raise(c, "Underrun")
    ELSE [c EXCEPT !.pk = r.pk]

\* self.<name> = <bytes>.decode()
AssignText(c, name, r) ==
    IF ~c.ok THEN c
    ELSE IF ~r.ok THEN Raise(c, "Underrun")
    ELSE LET t == decode(r.val)
         IN  IF t.ok THEN [c EXCEPT !.pk = r.pk, !.ev = Set(@, name, t.val)]
             ELSE Raise([c EXCEPT !.pk = r.pk], "UnicodeDecodeError")

-----------------------------------------------------------------------------
(* BinLogEvent *)

HeaderStart == 1
HeaderSize == 19
BodyStart == 20
FooterSize == 4

\* BinLogEvent._verify_event
verify_event(c, size, verify) ==
    IF ~verify THEN c
    ELSE LET r1 == rewind(c.pk, HeaderStart)
             r2 == read(r1.pk, HeaderSize + size)
             r3 == read(r2.pk, FooterSize)
         IN  IF ~r1.ok THEN Raise(c, "InvalidRewind")
             ELSE IF ~r2.ok THEN Raise([c EXCEPT !.pk = r2.pk], "Underrun")
             ELSE IF ~r3.ok THEN Raise([c EXCEPT !.pk = r3.pk], "Underrun")
             ELSE LET valid == (crc32_le(r2.val) = r3.val)
                      pk4 == [r3.pk EXCEPT
                                !.read_bytes = @ - (HeaderSize + size + FooterSize)]
                      r5 == rewind(pk4, BodyStart)
                  IN  IF ~r5.ok
                      THEN Raise([c EXCEPT !.pk = pk4], "InvalidRewind")
                      ELSE [c EXCEPT !.pk = r5.pk,
                                     !.ev = Set(@, "_is_event_valid",
                                               IF valid THEN "True" ELSE "False")]

\* BinLogEvent.__init__ without the call of _verify_event
BinLogEventUnverified(pk, e, size, verify) ==
    Ctor(pk, Set(e, "_is_event_valid", "None"))

\* BinLogEvent.__init__
BinLogEvent(pk, e, size, verify) ==
    verify_event(Ctor(pk, Set(e, "_is_event_valid", "None")), size, verify)

-----------------------------------------------------------------------------
(* The constructors of the fixed-layout events, each from the point where  *)
(* super().__init__ has returned.                                          *)

\* XidEvent.__init__
XidEvent(c) ==
    LET r == read(c.pk, 8)
    IN  Assign(c, "xid", IF r.ok THEN WithVal(r, unpack_unsigned_le(r.val)) ELSE r)

\* IntvarEvent.__init__
IntvarEvent(c) ==
    LET c1 == Assign(c, "type", read_uint8(c.pk))
        c2 == Assign(c1, "value", read_uint32(c1.pk))
    IN  c2

\* RandEvent.__init__
RandEvent(c) ==
    LET c1 == Assign(c, "_seed1", read_uint64(c.pk))
        c2 == Assign(c1, "_seed2", read_uint64(c1.pk))
    IN  c2

\* MariadbStartEncryptionEvent.__init__
MariadbStartEncryptionEvent(c) ==
    LET c1 == Assign(c, "schema", read_uint8(c.pk))
        c2 == Assign(c1, "key_version", read_uint32(c1.pk))
        c3 == Assign(c2, "nonce", read(c2.pk, 12))
    IN  c3

\* "%d-%d-%d" % (domain_id, server_id, gtid_seq_no)
MariadbGtidStr(domain_id, server_id, gtid_seq_no) ==
    StrOfBig(domain_id) \o <<Minus>> \o StrOfBig(server_id) \o <<Minus>>
        \o StrOfBig(gtid_seq_no)

\* MariadbGtidEvent.__init__
MariadbGtidEvent(c) ==
    LET c0 == [c EXCEPT !.ev = Set(@, "server_id", c.pk.server_id)]
        c1 == Assign(c0, "gtid_seq_no", read_uint64(c0.pk))
        c2 == Assign(c1, "domain_id", read_uint32(c1.pk))
        c3 == Assign(c2, "flags", read_uint8(c2.pk))
    IN  IF ~c3.ok THEN c3
        ELSE [c3 EXCEPT !.ev = Set(@, "gtid",
                 MariadbGtidStr(c3.ev["domain_id"], c3.ev["server_id"],
                                c3.ev["gtid_seq_no"]))]

\* ExecuteLoadQueryEvent.__init__ with the status-variable length read as
\* one byte.
ExecuteLoadQueryEventShortLength(c) ==
    LET c1 == Assign(c, "slave_proxy_id", read_uint32(c.pk))
        c2 == Assign(c1, "execution_time", read_uint32(c1.pk))
        c3 == Assign(c2, "schema_length", read_uint8(c2.pk))
        c4 == Assign(c3, "error_code", read_uint16(c3.pk))
        c5 == Assign(c4, "status_vars_length", read_uint8(c4.pk))
        c6 == Assign(c5, "file_id", read_uint32(c5.pk))
        c7 == Assign(c6, "start_pos", read_uint32(c6.pk))
        c8 == Assign(c7, "end_pos", read_uint32(c7.pk))
        c9 == Assign(c8, "dup_handling_flags", read_uint8(c8.pk))
    IN  c9

\* ExecuteLoadQueryEvent.__init__
ExecuteLoadQueryEvent(c) ==
    LET c1 == Assign(c, "slave_proxy_id", read_uint32(c.pk))
        c2 == Assign(c1, "execution_time", read_uint32(c1.pk))
        c3 == Assign(c2, "schema_length", read_uint8(c2.pk))
        c4 == Assign(c3, "error_code", read_uint16(c3.pk))
        c5 == Assign(c4, "status_vars_length", read_uint16(c4.pk))
        c6 == Assign(c5, "file_id", read_uint32(c5.pk))
        c7 == Assign(c6, "start_pos", read_uint32(c6.pk))
        c8 == Assign(c7, "end_pos", read_uint32(c7.pk))
        c9 == Assign(c8, "dup_handling_flags", read_uint8(c8.pk))
    IN  c9

-----------------------------------------------------------------------------
(* Steps *)

\* The constructor went from one place to the next, or raised.
Step(c, next) ==
    /\ packet' = c.pk
    /\ ev' = c.ev
    /\ err' = c.err
    /\ pc' = IF c.ok THEN next ELSE "failed"
    /\ UNCHANGED <<kind, event_size, verify_checksum, mysql_version, src>>

\* A step that touches neither the local variables nor the loop's record.
Plain(c, next) == Step(c, next) /\ UNCHANGED <<locals, trace>>

\* super().__init__(from_packet, event_size, ...)
Construct ==
    /\ pc = "new"
    /\ Plain(BinLogEvent(packet, ev, event_size, verify_checksum), "body")

NewXidEvent ==
    /\ pc = "body" /\ kind = "XidEvent"
    /\ Plain(XidEvent(Ctor(packet, ev)), "done")

NewIntvarEvent ==
    /\ pc = "body" /\ kind = "IntvarEvent"
    /\ Plain(IntvarEvent(Ctor(packet, ev)), "done")

NewRandEvent ==
    /\ pc = "body" /\ kind = "RandEvent"
    /\ Plain(RandEvent(Ctor(packet, ev)), "done")

NewMariadbStartEncryptionEvent ==
    /\ pc = "body" /\ kind = "MariadbStartEncryptionEvent"
    /\ Plain(MariadbStartEncryptionEvent(Ctor(packet, ev)), "done")

NewMariadbGtidEvent ==
    /\ pc = "body" /\ kind = "MariadbGtidEvent"
    /\ Plain(MariadbGtidEvent(Ctor(packet, ev)), "done")

NewExecuteLoadQueryEvent ==
    /\ pc = "body" /\ kind = "ExecuteLoadQueryEvent"
    /\ Plain(ExecuteLoadQueryEvent(Ctor(packet, ev)), "done")

-----------------------------------------------------------------------------
(* The packets handed to the constructors.  A packet is built from the     *)
(* values it is to carry by the wire format's own rules (little-endian,    *)
(* least significant byte first), done here by division, where the         *)
(* decoders multiply.                                                      *)

RECURSIVE LongDiv(_, _, _, _)
LongDiv(d, m, q, rem) ==
    IF d = <<>> THEN [q |-> StripZeros(<<0>> \o q), r |-> rem]
    ELSE LET cur == rem * 10 + Head(d)
         IN  LongDiv(Tail(d), m, Append(q, cur \div m), cur % m)

\* The w little-endian bytes of a value given as digits.
RECURSIVE EncDigitsLE(_, _)
EncDigitsLE(d, w) ==
    IF w = 0 THEN <<>>
    ELSE LET qr == LongDiv(d, 256, <<>>, 0)
         IN  <<qr.r>> \o EncDigitsLE(qr.q, w - 1)

RECURSIVE EncNatLE(_, _)
EncNatLE(n, w) ==
    IF w = 0 THEN <<>> ELSE <<n % 256>> \o EncNatLE(n \div 256, w - 1)

Width(type) ==
    CASE type = "u8" -> 1 [] type = "u16" -> 2 [] type = "u24" -> 3
      [] type = "u32" -> 4 [] type = "u64" -> 8 [] type = "raw12" -> 12

EncField(type, v) ==
    CASE type \in {"u8", "u16", "u24"} -> EncNatLE(v, Width(type))
      [] type \in {"u32", "u64"} -> EncDigitsLE(v.mag, Width(type))
      [] type = "raw12" -> v

\* The body that carries the values vals in the layout: a sequence of
\* <<attribute, type>>.
EncLayout(layout, vals) ==
    Concat([i \in 1..Len(layout) |-> EncField(layout[i][2], vals[layout[i][1]])])

RECURSIVE SumWidths(_)
SumWidths(layout) ==
    IF layout = <<>> THEN 0
    ELSE Width(Head(layout)[2]) + SumWidths(Tail(layout))

U8Samples == {0, 1, 255}

U16Samples == {0, 258, 65535}

\* 0, 1, 0x04030201, 2^31, 2^32 - 1
U32Samples ==
    {Big(FALSE, d) : d \in {<<0>>, <<1>>, <<6, 7, 3, 0, 5, 9, 8, 5>>,
                            <<2, 1, 4, 7, 4, 8, 3, 6, 4, 8>>,
                            <<4, 2, 9, 4, 9, 6, 7, 2, 9, 5>>}}

\* 0, 1, 2^32, 0x0807060504030201, 2^63, 2^64 - 1
U64Samples ==
    {Big(FALSE, d) : d \in
        {<<0>>, <<1>>, <<4, 2, 9, 4, 9, 6, 7, 2, 9, 6>>,
         <<5, 7, 8, 4, 3, 7, 6, 9, 5, 7, 5, 2, 3, 0, 7, 2, 0, 1>>,
         <<9, 2, 2, 3, 3, 7, 2, 0, 3, 6, 8, 5, 4, 7, 7, 5, 8, 0, 8>>,
         <<1, 8, 4, 4, 6, 7, 4, 4, 0, 7, 3, 7, 0, 9, 5, 5, 1, 6, 1, 5>>}}

NonceSamples == {[i \in 1..12 |-> i], [i \in 1..12 |-> 256 - i]}

ServerIdSamples == {Big(FALSE, <<1>>), Big(FALSE, <<4, 2, 9, 4, 9, 6, 7, 2, 9, 5>>)}

\* The header: timestamp, type code, server id, event length, log position
\* and flags, 19 bytes.
Header(server_id) ==
    <<0, 0, 0, 0>> \o <<0>> \o EncDigitsLE(server_id.mag, 4) \o <<0, 0, 0, 0>>
        \o <<0, 0, 0, 0>> \o <<0, 0>>

\* The packet as the stream hands it over: the cursor behind the header,
\* nothing consumed, and the CRC-32 footer behind the body when checksums
\* are on.
MkPacket(server_id, body, footer) ==
    [data |-> <<0>> \o Header(server_id) \o body \o footer,
     position |-> BodyStart,
     read_bytes |-> 0,
     server_id |-> server_id]

GoodFooter(server_id, body) == crc32_le(Header(server_id) \o body)

FixedKinds ==
    {"XidEvent", "IntvarEvent", "RandEvent", "MariadbStartEncryptionEvent",
     "MariadbGtidEvent", "ExecuteLoadQueryEvent"}

\* The documented layout of each fixed-layout event.
FixedLayout(k) ==
    CASE k = "XidEvent" -> << <<"xid", "u64">> >>
      [] k = "IntvarEvent" -> << <<"type", "u8">>, <<"value", "u32">> >>
      [] k = "RandEvent" -> << <<"_seed1", "u64">>, <<"_seed2", "u64">> >>
      [] k = "MariadbStartEncryptionEvent" ->
            << <<"schema", "u8">>, <<"key_version", "u32">>, <<"nonce", "raw12">> >>
      [] k = "MariadbGtidEvent" ->
            << <<"gtid_seq_no", "u64">>, <<"domain_id", "u32">>, <<"flags", "u8">> >>
      [] k = "ExecuteLoadQueryEvent" ->
            << <<"slave_proxy_id", "u32">>, <<"execution_time", "u32">>,
               <<"schema_length", "u8">>, <<"error_code", "u16">>,
               <<"status_vars_length", "u16">>, <<"file_id", "u32">>,
               <<"start_pos", "u32">>, <<"end_pos", "u32">>,
               <<"dup_handling_flags", "u8">> >>

SamplesOf(type) ==
    CASE type = "u8" -> U8Samples [] type = "u16" -> U16Samples
      [] type = "u32" -> U32Samples [] type = "u64" -> U64Samples
      [] type = "raw12" -> NonceSamples

\* An ExecuteLoadQuery body with every field different from its neighbours.
ExecuteLoadQueryBase ==
    [slave_proxy_id |-> Big(FALSE, <<6, 7, 3, 0, 5, 9, 8, 5>>),
     execution_time |-> Big(FALSE, <<7>>),
     schema_length |-> 3,
     error_code |-> 1062,
     status_vars_length |-> 513,
     file_id |-> Big(FALSE, <<9>>),
     start_pos |-> Big(FALSE, <<1, 0>>),
     end_pos |-> Big(FALSE, <<2, 0>>),
     dup_handling_flags |-> 2]

\* The values a fixed-layout body is built from.
FixedValues(k) ==
    CASE k = "XidEvent" -> [xid : U64Samples]
      [] k = "IntvarEvent" -> [type : U8Samples, value : U32Samples]
      [] k = "RandEvent" -> [_seed1 : U64Samples, _seed2 : U64Samples]
      [] k = "MariadbStartEncryptionEvent" ->
            [schema : U8Samples, key_version : U32Samples, nonce : NonceSamples]
      [] k = "MariadbGtidEvent" ->
            [gtid_seq_no : U64Samples, domain_id : U32Samples, flags : U8Samples]
      [] k = "ExecuteLoadQueryEvent" ->
            UNION {{[ExecuteLoadQueryBase EXCEPT ![FixedLayout(k)[i][1]] = v] :
                      v \in SamplesOf(FixedLayout(k)[i][2])} :
                   i \in 1..Len(FixedLayout(k))}

\* What every constructor starts from.
Start(k, pk, size, verify, version, from) ==
    /\ kind = k
    /\ packet = pk
    /\ event_size = size
    /\ verify_checksum = verify
    /\ mysql_version = version
    /\ ev = NoAttrs
    /\ pc = "new"
    /\ err = "none"
    /\ locals = NoAttrs
    /\ src = from
    /\ trace = <<>>

DefaultVersion == <<0, 0, 0>>

InitFixed ==
    \E k \in FixedKinds, verify \in BOOLEAN, sid \in ServerIdSamples :
      \E vals \in FixedValues(k) :
        LET body == EncLayout(FixedLayout(k), vals)
            footer == IF verify THEN GoodFooter(sid, body) ELSE <<>>
        IN  Start(k, MkPacket(sid, body, footer), Len(body), verify,
                  DefaultVersion, vals)

NextFixed ==
    \/ Construct
    \/ NewXidEvent
    \/ NewIntvarEvent
    \/ NewRandEvent
    \/ NewMariadbStartEncryptionEvent
    \/ NewMariadbGtidEvent
    \/ NewExecuteLoadQueryEvent

SpecFixed == InitFixed /\ [][NextFixed]_vars

-----------------------------------------------------------------------------
(* C1: a fixed-layout event decoded from a body built in its documented    *)
(* layout has every field equal to the value encoded, and the bytes        *)
(* consumed are the sum of the field widths (8, 5, 16, 17, 13, 26), which  *)
(* is the event_size of that body.                                         *)

FixedSize(k) ==
    CASE k = "XidEvent" -> 8 [] k = "IntvarEvent" -> 5 [] k = "RandEvent" -> 16
      [] k = "MariadbStartEncryptionEvent" -> 17 [] k = "MariadbGtidEvent" -> 13
      [] k = "ExecuteLoadQueryEvent" -> 26

C1_FixedLayoutDecoded ==
    kind \in FixedKinds =>
      /\ pc # "failed"
      /\ event_size = FixedSize(kind)
      /\ pc = "done" =>
           /\ \A i \in 1..Len(FixedLayout(kind)) :
                LET name == FixedLayout(kind)[i][1]
                IN  Has(ev, name) /\ ev[name] = src[name]
           /\ packet.read_bytes = FixedSize(kind)
           /\ packet.read_bytes = event_size
           /\ packet.read_bytes = SumWidths(FixedLayout(kind))

C1_Witness ==
    /\ pc = "done" /\ kind = "ExecuteLoadQueryEvent" /\ verify_checksum
    /\ ev["end_pos"] = Big(FALSE, <<4, 2, 9, 4, 9, 6, 7, 2, 9, 5>>)
    /\ packet.read_bytes = 26

-----------------------------------------------------------------------------
(* The constructors of the events that end in a field of variable length   *)

\* RotateEvent.__init__
RotateEvent(c, size) ==
    LET r == read(c.pk, 8)
        c1 == Assign(c, "position",
                     IF r.ok THEN WithVal(r, unpack_unsigned_le(r.val)) ELSE r)
        c2 == AssignText(c1, "next_binlog", read(c1.pk, size - 8))
    IN  c2

\* HeartbeatLogEvent.__init__
HeartbeatLogEvent(c, size) == AssignText(c, "ident", read(c.pk, size))

\* BeginLoadQueryEvent.__init__
BeginLoadQueryEvent(c, size) ==
    LET c1 == Assign(c, "file_id", read_uint32(c.pk))
        c2 == Assign(c1, "block_data", read(c1.pk, size - 4))
    IN  c2

\* MariadbAnnotateRowsEvent.__init__
MariadbAnnotateRowsEvent(c, size) ==
    Assign(c, "sql_statement", read(c.pk, size))

\* NotImplementedEvent.__init__
NotImplementedEvent(c, size) == Skip(c, advance(c.pk, size))

NewRotateEvent ==
    /\ pc = "body" /\ kind = "RotateEvent"
    /\ Plain(RotateEvent(Ctor(packet, ev), event_size), "done")

NewHeartbeatLogEvent ==
    /\ pc = "body" /\ kind = "HeartbeatLogEvent"
    /\ Plain(HeartbeatLogEvent(Ctor(packet, ev), event_size), "done")

NewBeginLoadQueryEvent ==
    /\ pc = "body" /\ kind = "BeginLoadQueryEvent"
    /\ Plain(BeginLoadQueryEvent(Ctor(packet, ev), event_size), "done")

NewMariadbAnnotateRowsEvent ==
    /\ pc = "body" /\ kind = "MariadbAnnotateRowsEvent"
    /\ Plain(MariadbAnnotateRowsEvent(Ctor(packet, ev), event_size), "done")

NewNotImplementedEvent ==
    /\ pc = "body" /\ kind = "NotImplementedEvent"
    /\ Plain(NotImplementedEvent(Ctor(packet, ev), event_size), "done")

-----------------------------------------------------------------------------
(* QueryEvent *)

\* The keys of the status variables.  The module that defines them,
\* constants/STATUS_VAR_KEY, gives Q_HRNOW and Q_XID, the two keys of
\* MariaDB, the values 128 and 129; _read_status_vars_value_for_key notes
\* the values of the others beside each branch.
Q_FLAGS2_CODE == 0
Q_SQL_MODE_CODE == 1
Q_CATALOG_CODE == 2
Q_AUTO_INCREMENT == 3
Q_CHARSET_CODE == 4
Q_TIME_ZONE_CODE == 5
Q_CATALOG_NZ_CODE == 6
Q_LC_TIME_NAMES_CODE == 7
Q_CHARSET_DATABASE_CODE == 8
Q_TABLE_MAP_FOR_UPDATE_CODE == 9
Q_MASTER_DATA_WRITTEN_CODE == 10
Q_INVOKER == 11
Q_UPDATED_DB_NAMES == 12
Q_MICROSECONDS == 13
Q_COMMIT_TS == 14
Q_COMMIT_TS2 == 15
Q_EXPLICIT_DEFAULTS_FOR_TIMESTAMP == 16
Q_DDL_LOGGED_WITH_XID == 17
Q_DEFAULT_COLLATION_FOR_UTF8MB4 == 18
Q_SQL_REQUIRE_PRIMARY_KEY == 19
Q_DEFAULT_TABLE_ENCRYPTION == 20
Q_HRNOW == 128
Q_XID == 129

\* The count byte of Q_UPDATED_DB_NAMES that stands for one unnamed database.
OverMaxDbs == 254

\* The post-header: 4 + 4 + 1 + 2 + 2 bytes.
QueryPostHeaderSize == 13

\* A length-prefixed value stored whatever its length.
AssignPrefixedAlways(c, name) ==
    IF ~c.ok THEN c
    ELSE LET r == read_uint8(c.pk)
         IN  IF ~r.ok THEN Raise(c, "Underrun")
             ELSE Assign([c EXCEPT !.pk = r.pk], name, read(r.pk, r.val))

\* length = read_uint8(); if length: self.<name> = read(length)
AssignPrefixed(c, name) ==
    IF ~c.ok THEN c
    ELSE LET r == read_uint8(c.pk)
         IN  IF ~r.ok THEN Raise(c, "Underrun")
             ELSE IF r.val # 0
                  THEN Assign([c EXCEPT !.pk = r.pk], name, read(r.pk, r.val))
                  ELSE [c EXCEPT !.pk = r.pk]

\* for i in range(n): dbs.append(read_string())
RECURSIVE ReadDbs(_, _, _)
ReadDbs(pk, n, dbs) ==
    IF n = 0 THEN [ok |-> TRUE, val |-> dbs, pk |-> pk]
    ELSE LET r == read_string(pk)
         IN  IF ~r.ok THEN r ELSE ReadDbs(r.pk, n - 1, Append(dbs, r.val))

\* The branch without the early return on 254.
UpdatedDbNamesCounted(c) ==
    LET r == read_uint8(c.pk)
    IN  IF ~r.ok THEN Raise(c, "Underrun")
        ELSE Assign([c EXCEPT !.pk = r.pk], "mts_accessed_db_names",
                    ReadDbs(r.pk, r.val, <<>>))

\* The Q_UPDATED_DB_NAMES branch.
UpdatedDbNames(c) ==
    LET r == read_uint8(c.pk)
    IN  IF ~r.ok THEN Raise(c, "Underrun")
        ELSE IF r.val = OverMaxDbs THEN [c EXCEPT !.pk = r.pk]
        ELSE Assign([c EXCEPT !.pk = r.pk], "mts_accessed_db_names",
                    ReadDbs(r.pk, r.val, <<>>))

\* QueryEvent._read_status_vars_value_for_key
read_status_vars_value_for_key(c, key) ==
    CASE key = Q_FLAGS2_CODE -> Assign(c, "flags2", read_uint32(c.pk))
      [] key = Q_SQL_MODE_CODE -> Assign(c, "sql_mode", read_uint64(c.pk))
      [] key = Q_CATALOG_CODE -> c
      [] key = Q_AUTO_INCREMENT ->
            LET c1 == Assign(c, "auto_increment_increment", read_uint16(c.pk))
            IN  Assign(c1, "auto_increment_offset", read_uint16(c1.pk))
      [] key = Q_CHARSET_CODE ->
            LET c1 == Assign(c, "character_set_client", read_uint16(c.pk))
                c2 == Assign(c1, "collation_connection", read_uint16(c1.pk))
            IN  Assign(c2, "collation_server", read_uint16(c2.pk))
      [] key = Q_TIME_ZONE_CODE -> AssignPrefixed(c, "time_zone")
      [] key = Q_CATALOG_NZ_CODE -> AssignPrefixed(c, "catalog_nz_code")
      [] key = Q_LC_TIME_NAMES_CODE ->
            Assign(c, "lc_time_names_number", read_uint16(c.pk))
      [] key = Q_CHARSET_DATABASE_CODE ->
            Assign(c, "charset_database_number", read_uint16(c.pk))
      [] key = Q_TABLE_MAP_FOR_UPDATE_CODE ->
            Assign(c, "table_map_for_update", read_uint64(c.pk))
      [] key = Q_MASTER_DATA_WRITTEN_CODE -> c
      [] key = Q_INVOKER -> AssignPrefixed(AssignPrefixed(c, "user"), "host")
      [] key = Q_UPDATED_DB_NAMES -> UpdatedDbNames(c)
      [] key = Q_MICROSECONDS -> Assign(c, "microseconds", read_uint24(c.pk))
      [] key = Q_COMMIT_TS -> c
      [] key = Q_COMMIT_TS2 -> c
      [] key = Q_EXPLICIT_DEFAULTS_FOR_TIMESTAMP ->
            Assign(c, "explicit_defaults_ts", read_uint8(c.pk))
      [] key = Q_DDL_LOGGED_WITH_XID -> Assign(c, "ddl_xid", read_uint64(c.pk))
      [] key = Q_DEFAULT_COLLATION_FOR_UTF8MB4 ->
            Assign(c, "default_collation_for_utf8mb4_number", read_uint16(c.pk))
      [] key = Q_SQL_REQUIRE_PRIMARY_KEY ->
            Assign(c, "sql_require_primary_key", read_uint8(c.pk))
      [] key = Q_DEFAULT_TABLE_ENCRYPTION ->
            Assign(c, "default_table_encryption", read_uint8(c.pk))
      [] key = Q_HRNOW -> Assign(c, "hrnow", read_uint24(c.pk))
      [] key = Q_XID -> Assign(c, "xid", read_uint64(c.pk))
      [] OTHER -> Raise(c, "StatusVariableMismatch")

\* One byte of bytes.decode("utf-8", errors="backslashreplace") that starts
\* no well-formed sequence: \xNN, in lower case.
HexDigit(n) == IF n < 10 THEN Zero + n ELSE 87 + n

Escape(b) == <<Backslash, 120, HexDigit(b \div 16), HexDigit(b % 16)>>

\* bytes.decode("utf-8", errors="backslashreplace")
RECURSIVE decode_backslashreplace(_)
decode_backslashreplace(b) ==
    IF b = <<>> THEN <<>>
    ELSE LET n == Utf8Len(b)
         IN  IF n = 0 THEN Escape(b[1]) \o decode_backslashreplace(Drop(b, 1))
             ELSE <<Utf8Point(b, n)>> \o decode_backslashreplace(Drop(b, n))

\* QueryEvent.__init__, the post-header
QueryPostHeader(c) ==
    LET c1 == Assign(c, "slave_proxy_id", read_uint32(c.pk))
        c2 == Assign(c1, "execution_time", read_uint32(c1.pk))
        c3 == Assign(c2, "schema_length", read_uint8(c2.pk))
        c4 == Assign(c3, "error_code", read_uint16(c3.pk))
        c5 == Assign(c4, "status_vars_length", read_uint16(c4.pk))
    IN  c5

\* The keys _read_status_vars_value_for_key has a branch for.
StatusVarKeys ==
    {Q_FLAGS2_CODE, Q_SQL_MODE_CODE, Q_CATALOG_CODE, Q_AUTO_INCREMENT,
     Q_CHARSET_CODE, Q_TIME_ZONE_CODE, Q_CATALOG_NZ_CODE, Q_LC_TIME_NAMES_CODE,
     Q_CHARSET_DATABASE_CODE, Q_TABLE_MAP_FOR_UPDATE_CODE,
     Q_MASTER_DATA_WRITTEN_CODE, Q_INVOKER, Q_UPDATED_DB_NAMES, Q_MICROSECONDS,
     Q_COMMIT_TS, Q_COMMIT_TS2, Q_EXPLICIT_DEFAULTS_FOR_TIMESTAMP,
     Q_DDL_LOGGED_WITH_XID, Q_DEFAULT_COLLATION_FOR_UTF8MB4,
     Q_SQL_REQUIRE_PRIMARY_KEY, Q_DEFAULT_TABLE_ENCRYPTION, Q_HRNOW, Q_XID}

\* The attributes the branch of a key assigns.
FieldsOfKey(key) ==
    CASE key = Q_FLAGS2_CODE -> {"flags2"}
      [] key = Q_SQL_MODE_CODE -> {"sql_mode"}
      [] key = Q_AUTO_INCREMENT ->
            {"auto_increment_increment", "auto_increment_offset"}
      [] key = Q_CHARSET_CODE ->
            {"character_set_client", "collation_connection", "collation_server"}
      [] key = Q_TIME_ZONE_CODE -> {"time_zone"}
      [] key = Q_CATALOG_NZ_CODE -> {"catalog_nz_code"}
      [] key = Q_LC_TIME_NAMES_CODE -> {"lc_time_names_number"}
      [] key = Q_CHARSET_DATABASE_CODE -> {"charset_database_number"}
      [] key = Q_TABLE_MAP_FOR_UPDATE_CODE -> {"table_map_for_update"}
      [] key = Q_INVOKER -> {"user", "host"}
      [] key = Q_UPDATED_DB_NAMES -> {"mts_accessed_db_names"}
      [] key = Q_MICROSECONDS -> {"microseconds"}
      [] key = Q_EXPLICIT_DEFAULTS_FOR_TIMESTAMP -> {"explicit_defaults_ts"}
      [] key = Q_DDL_LOGGED_WITH_XID -> {"ddl_xid"}
      [] key = Q_DEFAULT_COLLATION_FOR_UTF8MB4 ->
            {"default_collation_for_utf8mb4_number"}
      [] key = Q_SQL_REQUIRE_PRIMARY_KEY -> {"sql_require_primary_key"}
      [] key = Q_DEFAULT_TABLE_ENCRYPTION -> {"default_table_encryption"}
      [] key = Q_HRNOW -> {"hrnow"}
      [] key = Q_XID -> {"xid"}
      [] OTHER -> {}

\* A loop turn that steps over a key without a branch.
QueryStatusVarSkipUnknown(c) ==
    LET r == read_uint8(c.pk)
    IN  IF ~r.ok THEN Raise(c, "Underrun")
        ELSE IF r.val \in StatusVarKeys
             THEN read_status_vars_value_for_key([c EXCEPT !.pk = r.pk], r.val)
             ELSE [c EXCEPT !.pk = r.pk]

\* QueryEvent.__init__, one turn of the loop over the status variables
QueryStatusVar(c) ==
    LET r == read_uint8(c.pk)
    IN  IF ~r.ok THEN Raise(c, "Underrun")
        ELSE read_status_vars_value_for_key([c EXCEPT !.pk = r.pk], r.val)

\* The payload without the byte skipped behind the schema.
QueryPayloadNoSkip(c, size) ==
    LET c1 == Assign(c, "schema", read(c.pk, c.ev["schema_length"]))
        r == read(c1.pk, size - QueryPostHeaderSize - c.ev["status_vars_length"]
                           - c.ev["schema_length"] - 1)
    IN  Assign(c1, "query",
               IF r.ok THEN WithVal(r, decode_backslashreplace(r.val)) ELSE r)

\* QueryEvent.__init__, from the schema on, with the query text decoded as
\* bytes.decode() does it without an error handler.
QueryPayloadStrict(c, size) ==
    LET c1 == Assign(c, "schema", read(c.pk, c.ev["schema_length"]))
        c2 == Skip(c1, advance(c1.pk, 1))
    IN  AssignText(c2, "query",
                   read(c2.pk, size - QueryPostHeaderSize
                                 - c.ev["status_vars_length"]
                                 - c.ev["schema_length"] - 1))

\* QueryEvent.__init__, from the schema on
QueryPayload(c, size) ==
    LET c1 == Assign(c, "schema", read(c.pk, c.ev["schema_length"]))
        c2 == Skip(c1, advance(c1.pk, 1))
        r == read(c2.pk, size - QueryPostHeaderSize - c.ev["status_vars_length"]
                           - c.ev["schema_length"] - 1)
    IN  Assign(c2, "query",
               IF r.ok THEN WithVal(r, decode_backslashreplace(r.val)) ELSE r)

NewQueryEvent ==
    /\ pc = "body" /\ kind = "QueryEvent"
    /\ LET c == QueryPostHeader(Ctor(packet, ev))
       IN  /\ Step(c, "status_vars")
           /\ locals' = IF c.ok
                        THEN Set(locals, "status_vars_end_pos",
                                 c.pk.read_bytes + c.ev["status_vars_length"])
                        ELSE locals
    /\ UNCHANGED trace

\* while self.packet.read_bytes < status_vars_end_pos: one turn
ReadStatusVar ==
    /\ pc = "status_vars"
    /\ packet.read_bytes < locals["status_vars_end_pos"]
    /\ LET c == QueryStatusVar(Ctor(packet, ev))
       IN  /\ Step(c, "status_vars")
           /\ trace' = Append(trace,
                              [key |-> IF Remaining(packet) > 0
                                       THEN packet.data[packet.position + 1]
                                       ELSE -1,
                               before |-> packet.read_bytes,
                               after |-> c.pk.read_bytes,
                               ok |-> c.ok])
    /\ UNCHANGED locals

\* while self.packet.read_bytes < status_vars_end_pos: the loop ends
EndStatusVars ==
    /\ pc = "status_vars"
    /\ ~(packet.read_bytes < locals["status_vars_end_pos"])
    /\ Plain(Ctor(packet, ev), "payload")

ReadQueryPayload ==
    /\ pc = "payload"
    /\ Plain(QueryPayload(Ctor(packet, ev), event_size), "done")

-----------------------------------------------------------------------------
(* The packets of the events of variable length *)

\* The longest trailing field, and the most status variables in a block.
MaxTail == 2
MaxVars == 2

\* 'a', a continuation byte, the lead byte of a two-byte sequence, and a byte
\* that occurs in no UTF-8 text.
TextBytes == {97, 169, 195, 255}

Tails == UNION {[1..n -> TextBytes] : n \in 0..MaxTail}

TrailKinds ==
    {"RotateEvent", "HeartbeatLogEvent", "BeginLoadQueryEvent",
     "MariadbAnnotateRowsEvent", "NotImplementedEvent"}

\* The fixed fields in front of the trailing field.
TrailLayout(k) ==
    CASE k = "RotateEvent" -> << <<"position", "u64">> >>
      [] k = "BeginLoadQueryEvent" -> << <<"file_id", "u32">> >>
      [] OTHER -> <<>>

TrailValues(k) ==
    CASE k = "RotateEvent" -> [position : U64Samples]
      [] k = "BeginLoadQueryEvent" -> [file_id : U32Samples]
      [] OTHER -> {NoAttrs}

InitTrail ==
    \E k \in TrailKinds, verify \in BOOLEAN, tail \in Tails :
      \E vals \in TrailValues(k) :
        LET sid == Big(FALSE, <<1>>)
            body == EncLayout(TrailLayout(k), vals) \o tail
            footer == IF verify THEN GoodFooter(sid, body) ELSE <<>>
        IN  Start(k, MkPacket(sid, body, footer), Len(body), verify,
                  DefaultVersion, [fixed |-> vals, tail |-> tail])

\* A status variable on the wire: its key, the bytes of its value and the
\* attributes the value stands for.
Entry(key, val, fields) == [key |-> key, val |-> val, fields |-> fields]

EntryOf(key, layout, vals) == Entry(key, EncLayout(layout, vals), vals)

Prefixed(x) == <<Len(x)>> \o x

One(name, v) == [x \in {name} |-> v]

\* The null-terminated names behind a count byte.
DbNames(names) ==
    <<Len(names)>> \o Concat([i \in 1..Len(names) |-> names[i] \o <<0>>])

PlainEntries ==
    {EntryOf(Q_FLAGS2_CODE, << <<"flags2", "u32">> >>,
             [flags2 |-> Big(FALSE, <<6, 7, 3, 0, 5, 9, 8, 5>>)]),
     EntryOf(Q_SQL_MODE_CODE, << <<"sql_mode", "u64">> >>,
             [sql_mode |-> Big(FALSE, <<9, 2, 2, 3, 3, 7, 2, 0, 3, 6, 8, 5, 4,
                                        7, 7, 5, 8, 0, 8>>)]),
     Entry(Q_CATALOG_CODE, <<>>, NoAttrs),
     EntryOf(Q_AUTO_INCREMENT,
             << <<"auto_increment_increment", "u16">>,
                <<"auto_increment_offset", "u16">> >>,
             [auto_increment_increment |-> 258, auto_increment_offset |-> 1]),
     EntryOf(Q_CHARSET_CODE,
             << <<"character_set_client", "u16">>,
                <<"collation_connection", "u16">>,
                <<"collation_server", "u16">> >>,
             [character_set_client |-> 33, collation_connection |-> 258,
              collation_server |-> 65535]),
     EntryOf(Q_LC_TIME_NAMES_CODE, << <<"lc_time_names_number", "u16">> >>,
             [lc_time_names_number |-> 258]),
     EntryOf(Q_CHARSET_DATABASE_CODE, << <<"charset_database_number", "u16">> >>,
             [charset_database_number |-> 33]),
     EntryOf(Q_TABLE_MAP_FOR_UPDATE_CODE, << <<"table_map_for_update", "u64">> >>,
             [table_map_for_update |-> Big(FALSE, <<1>>)]),
     Entry(Q_MASTER_DATA_WRITTEN_CODE, <<>>, NoAttrs),
     EntryOf(Q_MICROSECONDS, << <<"microseconds", "u24">> >>,
             [microseconds |-> 66051]),
     Entry(Q_COMMIT_TS, <<>>, NoAttrs),
     Entry(Q_COMMIT_TS2, <<>>, NoAttrs),
     EntryOf(Q_EXPLICIT_DEFAULTS_FOR_TIMESTAMP,
             << <<"explicit_defaults_ts", "u8">> >>, [explicit_defaults_ts |-> 1]),
     EntryOf(Q_DDL_LOGGED_WITH_XID, << <<"ddl_xid", "u64">> >>,
             [ddl_xid |-> Big(FALSE, <<1, 8, 4, 4, 6, 7, 4, 4, 0, 7, 3, 7, 0, 9,
                                       5, 5, 1, 6, 1, 5>>)]),
     EntryOf(Q_DEFAULT_COLLATION_FOR_UTF8MB4,
             << <<"default_collation_for_utf8mb4_number", "u16">> >>,
             [default_collation_for_utf8mb4_number |-> 255]),
     EntryOf(Q_SQL_REQUIRE_PRIMARY_KEY, << <<"sql_require_primary_key", "u8">> >>,
             [sql_require_primary_key |-> 1]),
     EntryOf(Q_DEFAULT_TABLE_ENCRYPTION,
             << <<"default_table_encryption", "u8">> >>,
             [default_table_encryption |-> 255]),
     EntryOf(Q_HRNOW, << <<"hrnow", "u24">> >>, [hrnow |-> 16777215]),
     EntryOf(Q_XID, << <<"xid", "u64">> >>,
             [xid |-> Big(FALSE, <<4, 2, 9, 4, 9, 6, 7, 2, 9, 6>>)])}

PrefixedEntries ==
    {Entry(Q_TIME_ZONE_CODE, Prefixed(<<>>), NoAttrs),
     Entry(Q_TIME_ZONE_CODE, Prefixed(<<85, 84, 67>>), One("time_zone", <<85, 84, 67>>)),
     Entry(Q_CATALOG_NZ_CODE, Prefixed(<<>>), NoAttrs),
     Entry(Q_CATALOG_NZ_CODE, Prefixed(<<115, 116, 100>>),
           One("catalog_nz_code", <<115, 116, 100>>)),
     Entry(Q_INVOKER, Prefixed(<<>>) \o Prefixed(<<>>), NoAttrs),
     Entry(Q_INVOKER, Prefixed(<<117>>) \o Prefixed(<<>>), One("user", <<117>>)),
     Entry(Q_INVOKER, Prefixed(<<>>) \o Prefixed(<<104, 0>>),
           One("host", <<104, 0>>)),
     Entry(Q_INVOKER, Prefixed(<<117>>) \o Prefixed(<<104>>),
           [user |-> <<117>>, host |-> <<104>>])}

DbNamesEntries ==
    {Entry(Q_UPDATED_DB_NAMES, <<OverMaxDbs>>, NoAttrs)}
    \cup {Entry(Q_UPDATED_DB_NAMES, DbNames(names),
                One("mts_accessed_db_names", names)) :
            names \in {<<>>, <<<<100, 98>>>>, <<<<100>>, <<>>>>,
                       <<<<>>, <<254>>, <<100, 98>>>>}}

\* Keys outside the enumerated set, the second with bytes behind it.
UnknownEntries == {Entry(21, <<>>, NoAttrs), Entry(255, <<1, 0>>, NoAttrs)}

Entries == PlainEntries \cup PrefixedEntries \cup DbNamesEntries \cup UnknownEntries

\* The entries that stand beside any other entry in a block.
CommonEntries ==
    {e \in Entries :
       \/ e.key \in {Q_AUTO_INCREMENT, 21}
       \/ e.key = Q_TIME_ZONE_CODE /\ e.val # <<0>>
       \/ e.key = Q_UPDATED_DB_NAMES /\ e.val = <<OverMaxDbs>>}

Blocks ==
    {es \in UNION {[1..n -> Entries] : n \in 0..MaxVars} :
       Cardinality({i \in 1..Len(es) : es[i] \notin CommonEntries}) <= 1}

BlockBytes(es) == Concat([i \in 1..Len(es) |-> <<es[i].key>> \o es[i].val])

\* The declared length of the block: its length, or one byte less when that
\* cuts the value of the last variable.
DeclaredLengths(es) ==
    {Len(BlockBytes(es))}
    \cup (IF es # <<>> /\ es[Len(es)].val # <<>>
          THEN {Len(BlockBytes(es)) - 1} ELSE {})

QueryLayout ==
    << <<"slave_proxy_id", "u32">>, <<"execution_time", "u32">>,
       <<"schema_length", "u8">>, <<"error_code", "u16">>,
       <<"status_vars_length", "u16">> >>

QueryBody(q) ==
    EncLayout(QueryLayout,
              [slave_proxy_id |-> q.slave_proxy_id,
               execution_time |-> q.execution_time,
               schema_length |-> Len(q.schema),
               error_code |-> q.error_code,
               status_vars_length |-> q.status_vars_length])
        \o BlockBytes(q.block) \o q.schema \o <<q.sep>> \o q.query

Schemas == {<<>>, <<100, 98>>}

Query(es, n, schema, query) ==
    [slave_proxy_id |-> Big(FALSE, <<6, 7, 3, 0, 5, 9, 8, 5>>),
     execution_time |-> Big(FALSE, <<3>>),
     error_code |-> 1062,
     status_vars_length |-> n, block |-> es,
     schema |-> schema, sep |-> 0, query |-> query]

\* Every block in front of one schema and one query text, and every schema
\* and query text behind the blocks of at most one common variable.
Queries ==
    {Query(p[1], p[2], <<100, 98>>, <<66>>) :
       p \in UNION {{es} \X DeclaredLengths(es) : es \in Blocks}}
    \cup {Query(es, Len(BlockBytes(es)), schema, query) :
            es \in {b \in Blocks : \A i \in 1..Len(b) : b[i] \in CommonEntries
                                                       /\ i = 1},
            schema \in Schemas, query \in Tails}

InitQuery ==
    \E q \in Queries, verify \in BOOLEAN :
      LET sid == Big(FALSE, <<1>>)
          body == QueryBody(q)
          footer == IF verify THEN GoodFooter(sid, body) ELSE <<>>
      IN  Start("QueryEvent", MkPacket(sid, body, footer), Len(body), verify,
                DefaultVersion, q)

InitVarLen == InitTrail \/ InitQuery

NextVarLen ==
    \/ Construct
    \/ NewRotateEvent
    \/ NewHeartbeatLogEvent
    \/ NewBeginLoadQueryEvent
    \/ NewMariadbAnnotateRowsEvent
    \/ NewNotImplementedEvent
    \/ NewQueryEvent
    \/ ReadStatusVar
    \/ EndStatusVars
    \/ ReadQueryPayload

SpecVarLen == InitVarLen /\ [][NextVarLen]_vars

-----------------------------------------------------------------------------
(* The events of variable length: what decoding consumes *)

\* The bytes of the event body in the packet.
BodyBytes == SubSeq(packet.data, BodyStart + 1, BodyStart + event_size)

\* The status-variable block is as long as the post-header declares.
ExactBlock == src.status_vars_length = Len(BlockBytes(src.block))

\* C2: a decoder with a trailing field or a pure skip (Rotate, Heartbeat,
\* BeginLoadQuery, MariadbAnnotateRows, NotImplemented, and Query with a
\* status-variable block that ends at its declared length) that finishes has
\* consumed event_size bytes, its trailing field being the event_size minus
\* the preceding fields bytes behind them; a Query event with
\* status-vars-length 0 consumes no status variable, and its schema is the
\* schema-length bytes behind the 13-byte post-header, followed by one skipped
\* byte and the query text.
C2_TrailingFieldExact ==
    pc = "done" =>
      /\ kind \in TrailKinds =>
           LET prefix == SumWidths(TrailLayout(kind))
               field == SubSeq(BodyBytes, prefix + 1, event_size)
           IN  /\ packet.read_bytes = event_size
               /\ Len(field) = event_size - prefix
               /\ field = src.tail
               /\ kind = "RotateEvent" => ev["next_binlog"] = decode(field).val
               /\ kind = "HeartbeatLogEvent" => ev["ident"] = decode(field).val
               /\ kind = "BeginLoadQueryEvent" => ev["block_data"] = field
               /\ kind = "MariadbAnnotateRowsEvent" => ev["sql_statement"] = field
      /\ kind = "QueryEvent" /\ ExactBlock =>
           LET prefix == QueryPostHeaderSize + src.status_vars_length
                         + Len(src.schema) + 1
           IN  /\ packet.read_bytes = event_size
               /\ Len(trace) = Len(src.block)
               /\ ev["schema"] = src.schema
               /\ Len(src.query) = event_size - prefix
               /\ ev["query"] = decode_backslashreplace(
                                    SubSeq(BodyBytes, prefix + 1, event_size))
      /\ kind = "QueryEvent" /\ ev["status_vars_length"] = 0 =>
           LET n == ev["schema_length"]
           IN  /\ trace = <<>>
               /\ ev["schema"] = SubSeq(BodyBytes, QueryPostHeaderSize + 1,
                                        QueryPostHeaderSize + n)
               /\ ev["query"] = decode_backslashreplace(
                                    SubSeq(BodyBytes, QueryPostHeaderSize + n + 2,
                                           event_size))
               /\ packet.read_bytes = event_size

C2_Witness ==
    /\ pc = "done" /\ kind = "QueryEvent" /\ verify_checksum
    /\ ev["status_vars_length"] = 0
    /\ ev["schema"] = <<100, 98>>
    /\ src.query = <<195, 169>>
    /\ ev["query"] = <<233>>
    /\ packet.read_bytes = 13 + 2 + 1 + 2

\* C3: when the loop over the status variables exits without a failure it has
\* consumed the declared length of the block, no less and no more.
C3_LoopConsumesDeclared ==
    pc = "payload" => packet.read_bytes = locals["status_vars_end_pos"]

\* The loop has exited one byte past a declared length of 4: the last byte of
\* the value of FLAGS2 lies behind the declared block.
C3_Overrun ==
    /\ pc = "payload"
    /\ src.status_vars_length = 4
    /\ trace = <<[key |-> Q_FLAGS2_CODE, before |-> 13, after |-> 18, ok |-> TRUE]>>
    /\ packet.read_bytes = locals["status_vars_end_pos"] + 1

\* The loop is about to read the key of one more status variable.
AtKey ==
    /\ pc = "status_vars"
    /\ packet.read_bytes < locals["status_vars_end_pos"]
    /\ Remaining(packet) > 0

NextKey == packet.data[packet.position + 1]

\* C4: a key byte outside the enumerated set fails the Query event with
\* StatusVariableMismatch at that key: only the key byte is consumed, no
\* attribute is set, and nothing is decoded after the failure.
C4_UnknownKeyFails ==
    [][/\ AtKey /\ NextKey \notin StatusVarKeys =>
            /\ pc' = "failed"
            /\ err' = "StatusVariableMismatch"
            /\ packet'.read_bytes = packet.read_bytes + 1
            /\ packet'.position = packet.position + 1
            /\ ev' = ev
       /\ pc = "failed" => UNCHANGED vars]_vars

C4_Witness ==
    /\ pc = "failed" /\ err = "StatusVariableMismatch"
    /\ Len(trace) = 2
    /\ trace[2].key = 255
    /\ trace[2].after = trace[2].before + 1
    /\ Remaining(packet) > 0

\* Every attribute a branch of _read_status_vars_value_for_key assigns.
AllStatusFields == UNION {FieldsOfKey(k) : k \in StatusVarKeys}

\* The attributes of a length-prefixed variable whose length byte is not 0.
PrefixedFields(e) ==
    CASE e.key = Q_TIME_ZONE_CODE -> IF e.val[1] # 0 THEN {"time_zone"} ELSE {}
      [] e.key = Q_CATALOG_NZ_CODE ->
            IF e.val[1] # 0 THEN {"catalog_nz_code"} ELSE {}
      [] e.key = Q_INVOKER ->
            (IF e.val[1] # 0 THEN {"user"} ELSE {})
            \cup (IF e.val[e.val[1] + 2] # 0 THEN {"host"} ELSE {})

PrefixedKeys == {Q_TIME_ZONE_CODE, Q_CATALOG_NZ_CODE, Q_INVOKER}

\* The attributes a status variable populates, as claim C5 has it.
FieldsAsStated(e) ==
    IF e.key \in PrefixedKeys THEN PrefixedFields(e) ELSE FieldsOfKey(e.key)

\* The same, except that UPDATED_DB_NAMES with count byte 254 populates none.
FieldsAmended(e) ==
    IF e.key = Q_UPDATED_DB_NAMES /\ e.val[1] = OverMaxDbs THEN {}
    ELSE FieldsAsStated(e)

\* The status variables decoded so far.
Decoded == {i \in 1..Len(trace) : trace[i].ok}

\* C5 as stated: the populated status attributes are those of the keys that
\* appeared, a length-prefixed one only when its length byte is not 0.
C5_PopulatedAsStated ==
    kind = "QueryEvent" =>
      DOMAIN ev \cap AllStatusFields
        = UNION {FieldsAsStated(src.block[i]) : i \in Decoded}

\* A turn of the loop leaves alone the attributes of every other key.
C5_Frame ==
    AtKey =>
      /\ DOMAIN ev \subseteq DOMAIN ev'
      /\ \A f \in DOMAIN ev' \ FieldsOfKey(NextKey) :
           f \in DOMAIN ev /\ ev'[f] = ev[f]

C5_Populated ==
    kind = "QueryEvent" =>
      /\ DOMAIN ev \cap AllStatusFields
           = UNION {FieldsAmended(src.block[i]) : i \in Decoded}
      /\ \A i \in Decoded :
           \A f \in FieldsAmended(src.block[i]) :
             (\A j \in Decoded : j > i => f \notin FieldsAmended(src.block[j]))
               => ev[f] = src.block[i].fields[f]

\* C5, amended: the populated status attributes are those of the keys that
\* appeared, a length-prefixed one only when its length byte is not 0 and
\* mts_accessed_db_names only when the count byte is not 254; every other
\* status attribute is absent, and decoding one key neither sets nor changes
\* an attribute of another key.
C5_PopulatedFields == []C5_Populated /\ [][C5_Frame]_vars

C5_Witness ==
    /\ pc = "done" /\ Len(trace) = 2
    /\ trace[1].key = Q_UPDATED_DB_NAMES /\ src.block[1].val = <<OverMaxDbs>>
    /\ trace[2].key = Q_INVOKER
    /\ DOMAIN ev \cap AllStatusFields = {"host"}

\* C6: UPDATED_DB_NAMES with count byte 254 consumes the count byte alone and
\* sets no names; with a count byte n < 254 it reads n null-terminated strings
\* and these are the names, in order.
C6_UpdatedDbNames ==
    [][AtKey /\ NextKey = Q_UPDATED_DB_NAMES /\ Remaining(packet) > 1 =>
         LET n == packet.data[packet.position + 2]
             names == src.block[Len(trace) + 1].fields
         IN  /\ pc' = "status_vars"
             /\ n = OverMaxDbs =>
                  /\ packet'.position = packet.position + 2
                  /\ packet'.read_bytes = packet.read_bytes + 2
                  /\ ev' = ev
             /\ n < OverMaxDbs =>
                  /\ Len(ev'["mts_accessed_db_names"]) = n
                  /\ ev'["mts_accessed_db_names"] = names["mts_accessed_db_names"]
                  /\ SubSeq(packet.data, packet.position + 3, packet'.position)
                       = Concat([i \in 1..n |->
                                   ev'["mts_accessed_db_names"][i] \o <<0>>])
                  /\ packet'.read_bytes - packet.read_bytes
                       = packet'.position - packet.position]_vars

C6_WitnessNames ==
    /\ pc = "status_vars" /\ Len(trace) = 2
    /\ trace[1].key = Q_UPDATED_DB_NAMES /\ trace[1].after = trace[1].before + 2
    /\ trace[2].key = Q_UPDATED_DB_NAMES /\ trace[2].after = trace[2].before + 5
    /\ ev["mts_accessed_db_names"] = <<<<100, 98>>>>

-----------------------------------------------------------------------------
(* UserVarEvent._parse_decimal_from_bytes *)

digits_per_integer == 9

compressed_bytes == <<0, 1, 1, 2, 2, 3, 3, 4, 4, 4>>

SignBit == 128

\* raw_decimal[0] ^ 0x80
FlipSign(b) == IF b >= SignBit THEN b - SignBit ELSE b + SignBit

\* (b ^ mask) & 0xFF for mask 0 or -1
MaskByte(b, mask) == IF mask = -1 THEN 255 - b ELSE b

\* v ^ mask for mask 0 or -1
MaskInt(v, mask) == IF mask = -1 THEN (-1) - v ELSE v

Failed(what) == [ok |-> FALSE, err |-> what]

\* decode_decimal_decompress_value: [ok, size, value], the value as digits.
\* Indexing databuff past the bytes that data[:size] gave is an IndexError.
decode_decimal_decompress_value(comp_indx, data, mask) ==
    LET size == compressed_bytes[comp_indx + 1]
    IN  IF size > 0
        THEN IF Len(data) < size THEN Failed("IndexError")
             ELSE [ok |-> TRUE, size |-> size,
                   value |-> int_from_bytes_big(
                                 [i \in 1..size |-> MaskByte(data[i], mask)])]
        ELSE [ok |-> TRUE, size |-> 0, value |-> BigZero]

\* The full groups appended as "%d", without the padding.
RECURSIVE ReadGroupsUnpadded(_, _, _, _, _)
ReadGroupsUnpadded(raw, pointer, n, mask, res) ==
    IF n <= 0 THEN [ok |-> TRUE, res |-> res, pointer |-> pointer]
    ELSE IF Len(raw) < pointer + 4 THEN Failed("struct.error")
    ELSE LET value == MaskInt(unpack_int32_be(SubSeq(raw, pointer + 1, pointer + 4)),
                              mask)
         IN  ReadGroupsUnpadded(raw, pointer + 4, n - 1, mask,
                                res \o StrOfInt(value))

\* for _ in range(n): value = unpack(">i", raw[pointer:pointer + 4])[0] ^ mask;
\* res += "%09d" % value; pointer += 4.    [ok, res, pointer]
RECURSIVE ReadGroups(_, _, _, _, _)
ReadGroups(raw, pointer, n, mask, res) ==
    IF n <= 0 THEN [ok |-> TRUE, res |-> res, pointer |-> pointer]
    ELSE IF Len(raw) < pointer + 4 THEN Failed("struct.error")
    ELSE LET value == MaskInt(unpack_int32_be(SubSeq(raw, pointer + 1, pointer + 4)),
                              mask)
         IN  ReadGroups(raw, pointer + 4, n - 1, mask,
                        res \o ZeroPadInt(value, digits_per_integer))

IsDigits(t) == \A i \in 1..Len(t) : t[i] >= Zero /\ t[i] <= Zero + 9

\* decimal.Decimal(res) for the texts the parser builds, which hold a point:
\* [sign] digits "." [digits]; the sign, the coefficient and the exponent of
\* the number.
Decimal(res) ==
    LET neg == res # <<>> /\ res[1] = Minus
        body == IF neg THEN Tail(res) ELSE res
        dots == {i \in 1..Len(body) : body[i] = Dot}
        dot == CHOOSE i \in dots : \A j \in dots : i <= j
        int == SubSeq(body, 1, dot - 1)
        frac == SubSeq(body, dot + 1, Len(body))
    IN  IF dots = {} \/ ~IsDigits(int) \/ ~IsDigits(frac) \/ int \o frac = <<>>
        THEN Failed("InvalidOperation")
        ELSE [ok |-> TRUE,
              value |-> [sign |-> IF neg THEN 1 ELSE 0,
                         digits |-> StripZeros([i \in 1..Len(int \o frac) |->
                                                  (int \o frac)[i] - Zero]),
                         exponent |-> 0 - Len(frac)]]

\* [ok, err] or [ok, res, value]
parse_decimal_from_bytes(raw_decimal, precision, decimals) ==
    LET integral == precision - decimals
        uncomp_integral == integral \div digits_per_integer
        comp_integral == integral % digits_per_integer
        uncomp_fractional == decimals \div digits_per_integer
        comp_fractional == decimals % digits_per_integer
    IN  IF raw_decimal = <<>> THEN Failed("IndexError")
        ELSE
        LET sign == IF raw_decimal[1] < SignBit THEN <<Minus>> ELSE <<>>
            mask == IF sign = <<Minus>> THEN -1 ELSE 0
            raw == <<FlipSign(raw_decimal[1])>> \o Tail(raw_decimal)
            lead == decode_decimal_decompress_value(comp_integral, raw, mask)
        IN  IF ~lead.ok THEN lead
            ELSE
            LET ints == ReadGroups(raw, lead.size, uncomp_integral, mask,
                                   sign \o StrOfDigits(lead.value))
            IN  IF ~ints.ok THEN ints
                ELSE
                LET fracs == ReadGroups(raw, ints.pointer, uncomp_fractional,
                                        mask, ints.res \o <<Dot>>)
                IN  IF ~fracs.ok THEN fracs
                    ELSE
                    LET last == decode_decimal_decompress_value(
                                    comp_fractional, Drop(raw, fracs.pointer),
                                    mask)
                    IN  IF ~last.ok THEN last
                        ELSE
                        LET res == IF last.size > 0
                                   THEN fracs.res
                                        \o ZeroPad(last.value, comp_fractional)
                                   ELSE fracs.res
                            d == Decimal(res)
                        IN  IF ~d.ok THEN d
                            ELSE [ok |-> TRUE, res |-> res, value |-> d.value]

\* The call of the static method: its arguments are in locals, and so is
\* what it returns.
ParseDecimal ==
    /\ pc = "call" /\ kind = "_parse_decimal_from_bytes"
    /\ LET r == parse_decimal_from_bytes(locals["raw_decimal"],
                                         locals["precision"], locals["decimals"])
       IN  /\ pc' = IF r.ok THEN "done" ELSE "failed"
           /\ err' = IF r.ok THEN err ELSE r.err
           /\ locals' = IF r.ok
                        THEN Set(Set(locals, "res", r.res), "return", r.value)
                        ELSE locals
    /\ UNCHANGED <<kind, packet, event_size, verify_checksum, mysql_version,
                   ev, src, trace>>

-----------------------------------------------------------------------------
(* The reference packed encoding of a decimal *)

\* The largest precision of the decimals encoded.
MaxPrecision == 19

\* The bytes that hold a group of 1 to 9 decimal digits.
Dig2Bytes == <<1, 1, 2, 2, 3, 3, 4, 4, 4>>

\* The digit counts of the groups of a decimal(precision, scale): the leading
\* partial group, the full groups before the point, the full groups after it
\* and the trailing partial group.
GroupSizes(precision, scale) ==
    LET intg == precision - scale
    IN  (IF intg % 9 > 0 THEN <<intg % 9>> ELSE <<>>)
        \o Repeat(9, intg \div 9) \o Repeat(9, scale \div 9)
        \o (IF scale % 9 > 0 THEN <<scale % 9>> ELSE <<>>)

\* Groups of k digits: 0...0, 0...01 and 9...9.
GroupSample(k, which) ==
    CASE which = 1 -> Repeat(0, k)
      [] which = 2 -> Repeat(0, k - 1) \o <<1>>
      [] which = 3 -> Repeat(9, k)

\* The bytes of the groups, each big-endian in Dig2Bytes of its digits,
\* every byte inverted for a negative value, and the high bit of the first
\* byte set for a positive value and clear for a negative one.
EncodeDecimal(neg, groups) ==
    LET plain == Concat([i \in 1..Len(groups) |->
                           Reverse(EncNatLE(NatOfDigits(groups[i], 0),
                                            Dig2Bytes[Len(groups[i])]))])
        bytes == [i \in 1..Len(plain) |-> IF neg THEN 255 - plain[i] ELSE plain[i]]
    IN  <<(bytes[1] + 128) % 256>> \o Tail(bytes)

NoPacket ==
    [data |-> <<>>, position |-> 0, read_bytes |-> 0, server_id |-> Big(FALSE, BigZero)]

InitDecimal ==
    \E precision \in 1..MaxPrecision, neg \in BOOLEAN :
      \E scale \in 0..precision :
        LET sizes == GroupSizes(precision, scale)
        IN  \E which \in [1..Len(sizes) -> 1..3] :
              LET groups == [i \in 1..Len(sizes) |-> GroupSample(sizes[i], which[i])]
              IN  /\ kind = "_parse_decimal_from_bytes"
                  /\ packet = NoPacket
                  /\ event_size = 0
                  /\ verify_checksum = FALSE
                  /\ mysql_version = DefaultVersion
                  /\ ev = NoAttrs
                  /\ pc = "call"
                  /\ err = "none"
                  /\ locals = [raw_decimal |-> EncodeDecimal(neg, groups),
                               precision |-> precision, decimals |-> scale]
                  /\ src = [reference |-> TRUE, neg |-> neg,
                            precision |-> precision, scale |-> scale,
                            groups |-> groups]
                  /\ trace = <<>>

NextDecimal == ParseDecimal

\* Buffers that are no reference encoding: for every precision and every
\* scale up to one more than it, a buffer one byte shorter than the two imply,
\* one as long and one a byte longer, made of a first byte and a filling.
RawFirstBytes == {0, 127, 128, 255}

RawFillBytes == {0, 255}

\* compressed_bytes[(p - s) mod 9] + 4 * ((p - s) div 9) + 4 * (s div 9)
\* + compressed_bytes[s mod 9]
ImpliedLength(precision, scale) ==
    compressed_bytes[((precision - scale) % 9) + 1]
    + 4 * ((precision - scale) \div 9) + 4 * (scale \div 9)
    + compressed_bytes[(scale % 9) + 1]

InitDecimalRaw ==
    \E precision \in 0..MaxPrecision, first \in RawFirstBytes,
       fill \in RawFillBytes, delta \in {-1, 0, 1} :
      \E scale \in 0..(precision + 1) :
        LET n == ImpliedLength(precision, scale) + delta
        IN  /\ n >= 0
            /\ kind = "_parse_decimal_from_bytes"
            /\ packet = NoPacket
            /\ event_size = 0
            /\ verify_checksum = FALSE
            /\ mysql_version = DefaultVersion
            /\ ev = NoAttrs
            /\ pc = "call"
            /\ err = "none"
            /\ locals = [raw_decimal |-> IF n = 0 THEN <<>>
                                         ELSE <<first>> \o Repeat(fill, n - 1),
                         precision |-> precision, decimals |-> scale]
            /\ src = [reference |-> FALSE]
            /\ trace = <<>>

SpecDecimal == (InitDecimal \/ InitDecimalRaw) /\ [][NextDecimal]_vars

\* The digits before the point and the digits after it.
IntegralDigits ==
    LET n == src.precision - src.scale
        k == Len(GroupSizes(n, 0))
    IN  Concat(SubSeq(src.groups, 1, k))

FractionalDigits ==
    LET n == src.precision - src.scale
        k == Len(GroupSizes(n, 0))
    IN  Concat(SubSeq(src.groups, k + 1, Len(src.groups)))

\* The text of the value: the leading partial group as a number, or 0 when
\* there is none, and every other digit as it is.
ExpectedText ==
    LET n == (src.precision - src.scale) % 9
        lead == IF n > 0 THEN StripZeros(src.groups[1]) ELSE <<0>>
    IN  (IF src.neg THEN <<Minus>> ELSE <<>>)
        \o StrOfDigits(lead \o Drop(IntegralDigits, n))
        \o <<Dot>> \o StrOfDigits(FractionalDigits)

\* C10: decoding the reference packed encoding of a decimal(precision, scale)
\* value, 0 <= scale <= precision, never fails and gives that value: its
\* sign, its digits before the point, and scale digits after the point, every
\* full group padded with zeros to 9 digits.
C10_DecimalRoundTrip ==
    kind = "_parse_decimal_from_bytes" /\ src.reference =>
      /\ pc # "failed"
      /\ pc = "done" =>
           /\ locals["res"] = ExpectedText
           /\ locals["return"].sign = (IF src.neg THEN 1 ELSE 0)
           /\ locals["return"].exponent = 0 - src.scale
           /\ Len(FractionalDigits) = src.scale
           /\ locals["return"].digits
                = StripZeros(IntegralDigits \o FractionalDigits)

C10_Witness ==
    /\ pc = "done" /\ kind = "_parse_decimal_from_bytes"
    /\ src.precision = 19 /\ src.scale = 9 /\ src.neg
    /\ locals["raw_decimal"] = <<126, 255, 255, 255, 254, 196, 101, 54, 0>>
    /\ locals["res"] = <<Minus, Zero + 1>> \o Repeat(Zero, 8) \o <<Zero + 1, Dot>>
                         \o Repeat(Zero + 9, 9)

-----------------------------------------------------------------------------
(* UserVarEvent *)

\* The values of attributes that hold values of several types: None, and a
\* value with the name of its type.
None == [type |-> "NoneType"]

Py(type, v) == [type |-> type, v |-> v]

\* self.<name> = <a value>
SetAttr(c, name, v) == IF ~c.ok THEN c ELSE [c EXCEPT !.ev = Set(@, name, v)]

\* self.value = <what a read method returned>, or the exception it raised
SetValue(c, r) == IF r.ok THEN SetAttr(c, "value", r.value) ELSE Raise(c, r.err)

\* The first column of type_to_codes_and_method, and the default of its get.
TypeCode(type) ==
    CASE type = 0 -> "STRING_RESULT"
      [] type = 1 -> "REAL_RESULT"
      [] type = 2 -> "INT_RESULT"
      [] type = 3 -> "ROW_RESULT"
      [] type = 4 -> "DECIMAL_RESULT"
      [] OTHER -> "UNKNOWN_RESULT"

\* UserVarEvent._read_string
_read_string(buffer) ==
    LET t == decode(buffer)
    IN  IF t.ok THEN [ok |-> TRUE, value |-> Py("str", t.val)]
        ELSE Failed("UnicodeDecodeError")

\* UserVarEvent._read_real: struct.unpack("<d") takes 8 bytes, no other count.
_read_real(buffer) ==
    IF Len(buffer) # 8 THEN Failed("struct.error")
    ELSE [ok |-> TRUE, value |-> Py("float", unpack_double_le(buffer))]

\* UserVarEvent._read_int: fmt = "<Q" if flags == 1 else "<q"
_read_int(buffer, flags) ==
    IF Len(buffer) # 8 THEN Failed("struct.error")
    ELSE [ok |-> TRUE,
          value |-> Py("int", IF flags = 1 THEN unpack_unsigned_le(buffer)
                                ELSE unpack_signed_le(buffer))]

\* UserVarEvent._read_decimal, which reads self.temp_value_buffer
_read_decimal(c) ==
    LET buffer == c.ev["temp_value_buffer"]
    IN  IF Len(buffer) < 1 THEN Raise(c, "IndexError")
        ELSE LET c1 == SetAttr(c, "precision", buffer[1])
             IN  IF Len(buffer) < 2 THEN Raise(c1, "IndexError")
                 ELSE LET c2 == SetAttr(c1, "decimals", buffer[2])
                          r == parse_decimal_from_bytes(Drop(buffer, 2),
                                                        buffer[1], buffer[2])
                      IN  IF r.ok THEN SetAttr(c2, "value", Py("Decimal", r.value))
                          ELSE Raise(c2, r.err)

\* UserVarEvent._set_value_from_temp_buffer.  _read_default takes no
\* argument besides self, and is called with the buffer: a TypeError, raised
\* before its body runs.
_set_value_from_temp_buffer(c) ==
    LET buffer == c.ev["temp_value_buffer"]
        type_code == TypeCode(c.ev["type"])
    IN  IF buffer = <<>> THEN c
        ELSE CASE type_code = "INT_RESULT" ->
                    SetValue(c, _read_int(buffer, c.ev["flags"]))
               [] type_code = "STRING_RESULT" -> SetValue(c, _read_string(buffer))
               [] type_code = "REAL_RESULT" -> SetValue(c, _read_real(buffer))
               [] type_code = "DECIMAL_RESULT" -> _read_decimal(c)
               [] OTHER -> Raise(c, "TypeError")

\* UserVarEvent.__init__ up to the test of is_null
UserVarName(c) ==
    LET c1 == Assign(c, "name_len", read_uint32(c.pk))
        c2 == IF c1.ok
              THEN AssignText(c1, "name",
                              read(c1.pk, NatOf(c1.ev["name_len"].mag)))
              ELSE c1
        c3 == Assign(c2, "is_null", read_uint8(c2.pk))
        c4 == SetAttr(c3, "value", None)
        c5 == SetAttr(c4, "flags", None)
    IN  SetAttr(c5, "temp_value_buffer", <<>>)

\* The branch of a variable that is not null, with the flags read in front of
\* the value.
UserVarValueFlagsFirst(c) ==
    LET c1 == Assign(c, "type", read_uint8(c.pk))
        c2 == Assign(c1, "charset", read_uint32(c1.pk))
        c3 == Assign(c2, "value_len", read_uint32(c2.pk))
        c4 == Assign(c3, "flags", read_uint8(c3.pk))
    IN  IF c4.ok
        THEN Assign(c4, "temp_value_buffer",
                    read(c4.pk, NatOf(c4.ev["value_len"].mag)))
        ELSE c4

\* The branch of a variable that is not null, up to the call of
\* _set_value_from_temp_buffer.
UserVarValue(c) ==
    LET c1 == Assign(c, "type", read_uint8(c.pk))
        c2 == Assign(c1, "charset", read_uint32(c1.pk))
        c3 == Assign(c2, "value_len", read_uint32(c2.pk))
        c4 == IF c3.ok
              THEN Assign(c3, "temp_value_buffer",
                          read(c3.pk, NatOf(c3.ev["value_len"].mag)))
              ELSE c3
    IN  Assign(c4, "flags", read_uint8(c4.pk))

\* The branch of a null variable.
UserVarNull(c) ==
    LET c1 == SetAttr(c, "type", None)
        c2 == SetAttr(c1, "charset", None)
        c3 == SetAttr(c2, "value_len", None)
        c4 == SetAttr(c3, "value", None)
    IN  SetAttr(c4, "flags", None)

NewUserVarEvent ==
    /\ pc = "body" /\ kind = "UserVarEvent"
    /\ LET c == UserVarName(Ctor(packet, ev))
       IN  IF ~c.ok THEN Plain(c, "failed")
           ELSE IF c.ev["is_null"] = 0
           THEN Plain(UserVarValue(c), "set_value")
           ELSE Plain(UserVarNull(c), "done")

SetValueFromTempBuffer ==
    /\ pc = "set_value"
    /\ Plain(_set_value_from_temp_buffer(Ctor(packet, ev)), "done")

\* The names, types, values and flags of the user variables decoded.
NameSamples == {<<>>, <<97>>, <<195, 169>>, <<255>>}

NullSamples == {0, 1, 255}

TypeSamples == {0, 1, 2, 3, 4, 5, 255}

FlagSamples == {0, 1, 2, 3, 255}

\* Empty; text, valid and not; 8 bytes: -1, -2^63, 1.0 and 0x0807060504030201;
\* decimal(5, 2) 123.45 and -123.45, a decimal cut short and one without
\* scale.
ValueSamples ==
    {<<>>, <<97>>, <<255>>,
     <<255, 255, 255, 255, 255, 255, 255, 255>>,
     <<0, 0, 0, 0, 0, 0, 0, 128>>,
     <<0, 0, 0, 0, 0, 0, 240, 63>>,
     <<1, 2, 3, 4, 5, 6, 7, 8>>,
     <<5, 2>> \o EncodeDecimal(FALSE, <<<<1, 2, 3>>, <<4, 5>>>>),
     <<5, 2>> \o EncodeDecimal(TRUE, <<<<1, 2, 3>>, <<4, 5>>>>),
     <<5, 2, 128>>, <<5>>}

UserVarLayout ==
    << <<"type", "u8">>, <<"charset", "u32">>, <<"value_len", "u32">> >>

UserVarBody(v) ==
    EncDigitsLE(DigitsOfNat(Len(v.name)), 4) \o v.name \o <<v.is_null>>
    \o (IF v.is_null = 0
        THEN EncLayout(UserVarLayout,
                       [type |-> v.type, charset |-> v.charset,
                        value_len |-> Big(FALSE, DigitsOfNat(Len(v.value)))])
             \o v.value \o <<v.flags>>
        ELSE <<>>)

UserVars ==
    [name : NameSamples, is_null : {0}, type : TypeSamples,
     charset : {Big(FALSE, <<3, 3>>)}, value : ValueSamples, flags : FlagSamples]
    \cup [name : NameSamples, is_null : NullSamples \ {0}, type : {0},
          charset : {Big(FALSE, <<3, 3>>)}, value : {<<>>}, flags : {0}]

InitUserVar ==
    \E v \in UserVars, verify \in BOOLEAN :
      LET sid == Big(FALSE, <<1>>)
          body == UserVarBody(v)
          footer == IF verify THEN GoodFooter(sid, body) ELSE <<>>
      IN  Start("UserVarEvent", MkPacket(sid, body, footer), Len(body), verify,
                DefaultVersion, v)

NextUserVar ==
    \/ Construct
    \/ NewUserVarEvent
    \/ SetValueFromTempBuffer

SpecUserVar == InitUserVar /\ [][NextUserVar]_vars

\* The fields of the variable have been read.
FieldsRead ==
    /\ kind = "UserVarEvent"
    /\ \/ pc \in {"set_value", "done"}
       \/ pc = "failed" /\ Has(ev, "value_len") /\ err # "Underrun"

\* C7: with a null flag that is not 0, type, charset, value length, value and
\* flags are None and 4 + name_len + 1 bytes are consumed; with a null flag of
\* 0 the type (u8), the charset (u32), the value length (u32), that many value
\* bytes and the flags (u8) are read in this order, 4 + name_len + 1 + 10 +
\* value_len bytes in all.
C7_UserVarFields ==
    FieldsRead =>
      LET name_len == NatOf(ev["name_len"].mag)
      IN  /\ name_len = Len(src.name)
          /\ ev["name"] = decode(src.name).val
          /\ ev["is_null"] = src.is_null
          /\ ev["is_null"] # 0 =>
               /\ pc = "done"
               /\ \A f \in {"type", "charset", "value_len", "value", "flags"} :
                    ev[f] = None
               /\ packet.read_bytes = 4 + name_len + 1
          /\ ev["is_null"] = 0 =>
               /\ ev["type"] = src.type
               /\ ev["charset"] = src.charset
               /\ NatOf(ev["value_len"].mag) = Len(src.value)
               /\ ev["temp_value_buffer"] = src.value
               /\ ev["flags"] = src.flags
               /\ packet.read_bytes = 4 + name_len + 1 + 10 + Len(src.value)
               /\ packet.read_bytes = event_size

C7_WitnessNull ==
    /\ pc = "done" /\ kind = "UserVarEvent"
    /\ ev["is_null"] = 255 /\ ev["name"] = <<233>>
    /\ ev["type"] = None
    /\ packet.read_bytes = 4 + 2 + 1

C7_WitnessValue ==
    /\ pc = "done" /\ kind = "UserVarEvent"
    /\ ev["is_null"] = 0 /\ ev["name"] = <<233>>
    /\ ev["type"] = 1 /\ ev["flags"] = 255
    /\ ev["value"] = Py("float", [sign |-> 0, exponent |-> 1023, fraction |-> BigZero])
    /\ packet.read_bytes = 4 + 2 + 1 + 10 + 8

\* The variable is not null, its name is text and its value is not empty.
ValueGiven ==
    /\ kind = "UserVarEvent" /\ pc \in {"done", "failed"}
    /\ src.is_null = 0 /\ src.value # <<>> /\ decode(src.name).ok

\* C8: a variable that is not null, with a value that is not empty and a type
\* of 3 or outside 0..4, decodes without a failure: its value is the value
\* bytes read, and no byte more is read for it.
C8_OpaqueValueKept ==
    ValueGiven /\ src.type \notin {0, 1, 2, 4} =>
      /\ pc = "done"
      /\ ev["value"] = Py("bytes", src.value)
      /\ packet.read_bytes = event_size

C8_TypeError ==
    /\ ValueGiven /\ src.type = 3 /\ src.value = <<97>>
    /\ pc = "failed" /\ err = "TypeError"
    /\ ev["value"] = None
    /\ packet.read_bytes = event_size

\* C9: a variable of type 2 with 8 value bytes has the unsigned little-endian
\* value of the bytes when bit 0 of the flags is set, and the signed
\* two's-complement value when it is clear.
C9_IntSignedness ==
    ValueGiven /\ src.type = 2 /\ Len(src.value) = 8 =>
      /\ pc = "done"
      /\ ev["value"] = Py("int", IF src.flags % 2 = 1
                                  THEN unpack_unsigned_le(src.value)
                                  ELSE unpack_signed_le(src.value))

C9_SignedDespiteBit ==
    /\ ValueGiven /\ src.type = 2 /\ src.flags = 3
    /\ src.value = <<255, 255, 255, 255, 255, 255, 255, 255>>
    /\ pc = "done"
    /\ ev["value"] = Py("int", Big(TRUE, <<1>>))

-----------------------------------------------------------------------------
(* The decimal parser on buffers that are no reference encoding *)

\* The scale is more than the precision, or the buffer is not as long as the
\* two imply.
Malformed ==
    \/ locals["decimals"] > locals["precision"]
    \/ Len(locals["raw_decimal"])
         # ImpliedLength(locals["precision"], locals["decimals"])

\* C11: the parser fails whenever precision and scale are malformed (the scale
\* more than the precision, or the buffer not as long as the two imply), and
\* never fails when precision, scale and buffer length are consistent.
C11_FailsIffMalformed ==
    kind = "_parse_decimal_from_bytes" /\ pc \in {"done", "failed"} =>
      (pc = "failed" <=> Malformed)

\* A buffer one byte longer than decimal(5, 2) takes is parsed to 123.45: the
\* last byte is never looked at.
C11_LongBufferParsed ==
    /\ kind = "_parse_decimal_from_bytes" /\ pc = "done"
    /\ locals["precision"] = 5 /\ locals["decimals"] = 2
    /\ Len(locals["raw_decimal"]) = 4
    /\ Malformed

\* A buffer as long as decimal(18, 0) takes whose second group has its high
\* bit set fails in decimal.Decimal.
C11_ConsistentFails ==
    /\ kind = "_parse_decimal_from_bytes" /\ pc = "failed"
    /\ err = "InvalidOperation"
    /\ locals["precision"] = 18 /\ locals["decimals"] = 0
    /\ ~Malformed

-----------------------------------------------------------------------------
(* GtidEvent *)

\* tuple >= tuple: the first place that differs decides, and of two tuples one
\* of which starts the other the longer is the greater.
RECURSIVE TupleGE(_, _)
TupleGE(a, b) ==
    IF b = <<>> THEN TRUE
    ELSE IF a = <<>> THEN FALSE
    ELSE IF a[1] # b[1] THEN a[1] > b[1]
    ELSE TupleGE(Drop(a, 1), Drop(b, 1))

LogicalClockVersion == <<5, 7>>

\* self.<name> = struct.unpack("<Q", self.packet.read(8))[0]
AssignQ(c, name) ==
    LET r == read(c.pk, 8)
    IN  Assign(c, name, IF r.ok THEN WithVal(r, unpack_unsigned_le(r.val)) ELSE r)

\* The constructor up to and including the group number.
GtidEventHead(c) ==
    LET r1 == read(c.pk, 1)
        c1 == Assign(c, "commit_flag",
                     IF r1.ok THEN WithVal(r1, r1.val[1] = 1) ELSE r1)
        c2 == Assign(c1, "sid", read(c1.pk, 16))
    IN  AssignQ(c2, "gno")

\* The two logical-clock fields.
GtidEventClock(c) == AssignQ(AssignQ(c, "last_committed"), "sequence_number")

\* The constructor with the logical clock read for every server version.
GtidEventUngated(c, version) ==
    LET r4 == read(GtidEventHead(c).pk, 1)
    IN  GtidEventClock(Assign(GtidEventHead(c), "lt_type",
                              IF r4.ok THEN WithVal(r4, r4.val[1]) ELSE r4))

\* The constructor without the byte between the group number and the clock.
GtidEventNoLtType(c, version) ==
    IF TupleGE(version, LogicalClockVersion)
    THEN GtidEventClock(GtidEventHead(c))
    ELSE GtidEventHead(c)

\* GtidEvent.__init__
GtidEvent(c, version) ==
    LET c3 == GtidEventHead(c)
        r4 == read(c3.pk, 1)
        c4 == Assign(c3, "lt_type", IF r4.ok THEN WithVal(r4, r4.val[1]) ELSE r4)
    IN  IF TupleGE(version, LogicalClockVersion) THEN GtidEventClock(c4) ELSE c4

\* hexlify with the two digits of each byte exchanged
RECURSIVE hexlifyLowFirst(_)
hexlifyLowFirst(b) ==
    IF b = <<>> THEN <<>>
    ELSE <<HexDigit(b[1] % 16), HexDigit(b[1] \div 16)>>
             \o hexlifyLowFirst(Drop(b, 1))

\* binascii.hexlify(b).decode("ascii")
RECURSIVE hexlify(_)
hexlify(b) ==
    IF b = <<>> THEN <<>>
    ELSE <<HexDigit(b[1] \div 16), HexDigit(b[1] % 16)>> \o hexlify(Drop(b, 1))

Hyphen == 45

Colon == 58

\* GtidEvent.gtid
gtid(e) ==
    LET nibbles == hexlify(e["sid"])
    IN  SubSeq(nibbles, 1, 8) \o <<Hyphen>> \o SubSeq(nibbles, 9, 12)
          \o <<Hyphen>> \o SubSeq(nibbles, 13, 16) \o <<Hyphen>>
          \o SubSeq(nibbles, 17, 20) \o <<Hyphen>> \o SubSeq(nibbles, 21, 32)
          \o <<Colon>> \o StrOfBig(e["gno"])

NewGtidEvent ==
    /\ pc = "body" /\ kind = "GtidEvent"
    /\ Plain(GtidEvent(Ctor(packet, ev), mysql_version), "done")

\* event.gtid, read once from the decoded event
ReadGtid ==
    /\ pc = "done" /\ kind = "GtidEvent" /\ ~Has(locals, "gtid")
    /\ locals' = Set(locals, "gtid", gtid(ev))
    /\ UNCHANGED <<kind, packet, event_size, verify_checksum, mysql_version,
                   ev, pc, err, src, trace>>

\* 3e11fa47-71ca-11e1-9e33-c80aa9429562, and the two extremes
SidSamples ==
    {<<62, 17, 250, 71, 113, 202, 17, 225, 158, 51, 200, 10, 169, 66, 149, 98>>,
     [i \in 1..16 |-> 0], [i \in 1..16 |-> 255]}

\* 23, 0, 2^64 - 1
GnoSamples ==
    {Big(FALSE, d) : d \in
        {<<2, 3>>, <<0>>,
         <<1, 8, 4, 4, 6, 7, 4, 4, 0, 7, 3, 7, 0, 9, 5, 5, 1, 6, 1, 5>>}}

\* The default, 5.6, the boundary as a pair and as a triple, 8.0, and tuples
\* of one number.
VersionSamples ==
    {DefaultVersion, <<5, 6, 99>>, <<5, 7>>, <<5, 7, 0>>, <<8, 0, 23>>,
     <<5>>, <<10>>}

\* The byte behind the group number: left out, 0, or 2 as the server writes
\* it.
LtTypeSamples == {<<>>, <<0>>, <<2>>}

\* What follows that byte: nothing, or last_committed and sequence_number.
ClockSamples ==
    {<<>>,
     <<Big(FALSE, <<7>>), Big(FALSE, <<8>>)>>,
     <<Big(FALSE, <<4, 2, 9, 4, 9, 6, 7, 2, 9, 6>>),
       Big(FALSE, <<1, 8, 4, 4, 6, 7, 4, 4, 0, 7, 3, 7, 0, 9, 5, 5, 1, 6, 1, 5>>)>>}

GtidBody(g) ==
    <<g.flag>> \o g.sid \o EncDigitsLE(g.gno.mag, 8) \o g.lt_type
       \o (IF g.clock = <<>> THEN <<>>
           ELSE EncDigitsLE(g.clock[1].mag, 8) \o EncDigitsLE(g.clock[2].mag, 8))

InitGtid ==
    \E flag \in {0, 1, 2}, sid \in SidSamples, gno \in GnoSamples,
       lt \in LtTypeSamples, clock \in ClockSamples, version \in VersionSamples,
       verify \in BOOLEAN :
      LET g == [flag |-> flag, sid |-> sid, gno |-> gno, lt_type |-> lt,
                clock |-> clock]
          server == Big(FALSE, <<1>>)
          body == GtidBody(g)
          footer == IF verify THEN GoodFooter(server, body) ELSE <<>>
      IN  Start("GtidEvent", MkPacket(server, body, footer), Len(body), verify,
                version, g)

NextGtid == Construct \/ NewGtidEvent \/ ReadGtid

SpecGtid == InitGtid /\ [][NextGtid]_vars

\* The versions of VersionSamples that are at least (5, 7) as Python orders
\* tuples.
HasLogicalClock == mysql_version \in {<<5, 7>>, <<5, 7, 0>>, <<8, 0, 23>>, <<10>>}

\* C12: in a decoded GTID event last_committed and sequence_number are there
\* exactly when mysql_version >= (5, 7); for every lower version, the default
\* (0, 0, 0) among them, both are absent and no byte is read for them; the two
\* are there or absent together.
C12_ClockByVersion ==
    kind = "GtidEvent" /\ pc = "done" =>
      /\ Has(ev, "last_committed") <=> HasLogicalClock
      /\ Has(ev, "sequence_number") <=> Has(ev, "last_committed")
      /\ ~HasLogicalClock =>
           packet.read_bytes = Len(<<src.flag>> \o src.sid) + 8 + 1

\* A body that holds the clock, decoded for the default version: the clock
\* is left unread.
C12_WitnessDefault ==
    /\ kind = "GtidEvent" /\ pc = "done"
    /\ mysql_version = DefaultVersion /\ src.clock # <<>>
    /\ ~Has(ev, "last_committed")

C12_Witness57 ==
    /\ kind = "GtidEvent" /\ pc = "done"
    /\ mysql_version = <<5, 7, 0>>
    /\ Has(ev, "last_committed") /\ Has(ev, "sequence_number")

\* The bytes at offsets a..b of the event body, the first byte at offset 0.
BodyAt(a, b) == SubSeq(packet.data, BodyStart + 1 + a, BodyStart + 1 + b)

\* The fields up to the group number, where the layout puts them.
GtidHeadAt ==
    /\ ev["commit_flag"] = (BodyAt(0, 0) = <<1>>)
    /\ ev["sid"] = BodyAt(1, 16)
    /\ EncDigitsLE(ev["gno"].mag, 8) = BodyAt(17, 24)

\* The logical clock in the 16 bytes from the given offset on.
GtidClockAt(first) ==
    /\ EncDigitsLE(ev["last_committed"].mag, 8) = BodyAt(first, first + 7)
    /\ EncDigitsLE(ev["sequence_number"].mag, 8) = BodyAt(first + 8, first + 15)

\* C13 as stated: the commit flag at offset 0 (true iff the byte is 1), the
\* UUID at 1..16, the group number at 17..24 and, from 5.7 on, last_committed
\* at 25..32 and sequence_number at 33..40 directly behind the group number;
\* 25 bytes consumed below 5.7 and 41 otherwise.
C13_LayoutAsStated ==
    kind = "GtidEvent" /\ pc = "done" =>
      /\ GtidHeadAt
      /\ HasLogicalClock => GtidClockAt(25)
      /\ packet.read_bytes = IF HasLogicalClock THEN 41 ELSE 25

\* C13: the commit flag at offset 0 (true iff the byte is 1), the UUID at
\* 1..16, the group number at 17..24, one byte lt_type at offset 25 and, from
\* 5.7 on, last_committed at 26..33 and sequence_number at 34..41; 26 bytes
\* consumed below 5.7 and 42 otherwise.
C13_Layout ==
    kind = "GtidEvent" /\ pc = "done" =>
      /\ GtidHeadAt
      /\ Has(ev, "lt_type") /\ <<ev["lt_type"]>> = BodyAt(25, 25)
      /\ HasLogicalClock => GtidClockAt(26)
      /\ packet.read_bytes = IF HasLogicalClock THEN 42 ELSE 26

\* An event of a 5.7 server as the server writes it: the clock is decoded
\* from behind the type byte.
C13_Witness ==
    /\ kind = "GtidEvent" /\ pc = "done" /\ HasLogicalClock
    /\ src.lt_type = <<2>> /\ src.clock # <<>>
    /\ ev["lt_type"] = 2
    /\ ev["last_committed"] = src.clock[1]
    /\ ev["sequence_number"] = src.clock[2]
    /\ packet.read_bytes = 42

\* "0123456789abcdef"
HexChars == <<48, 49, 50, 51, 52, 53, 54, 55, 56, 57, 97, 98, 99, 100, 101, 102>>

\* The k-th of the 32 hexadecimal digits of the UUID, the first being 1.
SidNibble(k) ==
    LET b == ev["sid"][(k + 1) \div 2]
    IN  IF k % 2 = 1 THEN b \div 16 ELSE b % 16

\* The place in the rendering of the k-th digit: a hyphen goes before the
\* 9th, 13th, 17th and 21st.
NibblePlace(k) ==
    k + (IF k > 8 THEN 1 ELSE 0) + (IF k > 12 THEN 1 ELSE 0)
      + (IF k > 16 THEN 1 ELSE 0) + (IF k > 20 THEN 1 ELSE 0)

\* C14: the GTID string is the 32 hexadecimal digits of the UUID in order, in
\* groups of 8-4-4-4-12 joined by '-' (hyphens at the positions 8, 13, 18 and
\* 23 counted from 0, the colon at 36), then ':' and the group number in
\* decimal.
C14_GtidRendering ==
    kind = "GtidEvent" /\ Has(locals, "gtid") =>
      LET s == locals["gtid"]
      IN  /\ Len(s) = 37 + Len(ev["gno"].mag)
          /\ \A k \in 1..32 : s[NibblePlace(k)] = HexChars[SidNibble(k) + 1]
          /\ \A p \in {8, 13, 18, 23} : s[p + 1] = Hyphen
          /\ s[36 + 1] = Colon
          /\ \A i \in 1..Len(ev["gno"].mag) : s[37 + i] = Zero + ev["gno"].mag[i]

\* The UUID 3e11fa47-71ca-11e1-9e33-c80aa9429562 with the group number 23 is
\* rendered as "3e11fa47-71ca-11e1-9e33-c80aa9429562:23".
C14_Witness ==
    /\ kind = "GtidEvent" /\ Has(locals, "gtid")
    /\ src.sid[1] = 62 /\ src.gno = Big(FALSE, <<2, 3>>)
    /\ ev["sid"] = src.sid /\ ev["gno"] = src.gno
    /\ locals["gtid"] =
         <<51, 101, 49, 49, 102, 97, 52, 55, 45, 55, 49, 99, 97, 45, 49, 49,
           101, 49, 45, 57, 101, 51, 51, 45, 99, 56, 48, 97, 97, 57, 52, 50,
           57, 53, 54, 50, 58, 50, 51>>

-----------------------------------------------------------------------------
(* MariadbGtidListEvent *)

\* MariadbGtidObejct.__init__ from the point where super().__init__ has
\* returned.
MariadbGtidObejctFields(c) ==
    LET c1 == Assign(c, "domain_id", read_uint32(c.pk))
        c2 == Assign(c1, "server_id", read_uint32(c1.pk))
        c3 == Assign(c2, "gtid_seq_no", read_uint64(c2.pk))
    IN  IF ~c3.ok THEN c3
        ELSE [c3 EXCEPT !.ev = Set(@, "gtid",
                 MariadbGtidStr(c3.ev["domain_id"], c3.ev["server_id"],
                                c3.ev["gtid_seq_no"]))]

\* MariadbGtidObejct.__init__: an element of the list is an event of its own,
\* constructed over the packet and with the arguments of the list event.
MariadbGtidObejct(pk, size, verify) ==
    MariadbGtidObejctFields(BinLogEvent(pk, NoAttrs, size, verify))

\* self.gtid_length = self.packet.read_uint32()
NewMariadbGtidListEvent ==
    /\ pc = "body" /\ kind = "MariadbGtidListEvent"
    /\ Step(Assign(Ctor(packet, ev), "gtid_length", read_uint32(packet)), "list")
    /\ locals' = Set(locals, "gtid_list", <<>>)
    /\ UNCHANGED trace

\* One round of the list comprehension: for i in range(self.gtid_length)
NewMariadbGtidObejct ==
    /\ pc = "list" /\ kind = "MariadbGtidListEvent"
    /\ Len(locals["gtid_list"]) < NatOf(ev["gtid_length"].mag)
    /\ LET c == MariadbGtidObejct(packet, event_size, verify_checksum)
       IN  /\ packet' = c.pk
           /\ err' = c.err
           /\ pc' = IF c.ok THEN "list" ELSE "failed"
           /\ locals' = IF c.ok
                        THEN Set(locals, "gtid_list",
                                 Append(locals["gtid_list"], c.ev))
                        ELSE locals
    /\ UNCHANGED <<kind, event_size, verify_checksum, mysql_version, ev, src,
                   trace>>

\* self.gtid_list = [...]
EndMariadbGtidList ==
    /\ pc = "list" /\ kind = "MariadbGtidListEvent"
    /\ Len(locals["gtid_list"]) = NatOf(ev["gtid_length"].mag)
    /\ ev' = Set(ev, "gtid_list", locals["gtid_list"])
    /\ pc' = "done"
    /\ UNCHANGED <<kind, packet, event_size, verify_checksum, mysql_version,
                   err, locals, src, trace>>

MaxGtids == 2

\* (0, 1, 100), (7, 8, 9) and the largest of each width
GtidRecordSamples ==
    {[domain_id |-> Big(FALSE, d[1]), server_id |-> Big(FALSE, d[2]),
      gtid_seq_no |-> Big(FALSE, d[3])] : d \in
        {<< <<0>>, <<1>>, <<1, 0, 0>> >>,
         << <<7>>, <<8>>, <<9>> >>,
         << <<4, 2, 9, 4, 9, 6, 7, 2, 9, 5>>, <<4, 2, 9, 4, 9, 6, 7, 2, 9, 5>>,
            <<1, 8, 4, 4, 6, 7, 4, 4, 0, 7, 3, 7, 0, 9, 5, 5, 1, 6, 1, 5>> >>}}

GtidRecordBytes(r) ==
    EncDigitsLE(r.domain_id.mag, 4) \o EncDigitsLE(r.server_id.mag, 4)
       \o EncDigitsLE(r.gtid_seq_no.mag, 8)

RECURSIVE GtidListBytes(_)
GtidListBytes(rs) ==
    IF rs = <<>> THEN <<>>
    ELSE GtidRecordBytes(rs[1]) \o GtidListBytes(Drop(rs, 1))

\* A list of up to MaxGtids records behind a count that is the number of the
\* records or one more.
InitGtidList ==
    \E n \in 0..MaxGtids, verify \in BOOLEAN, server \in ServerIdSamples :
      \E rs \in [1..n -> GtidRecordSamples], count \in {n, n + 1} :
        LET body == EncNatLE(count, 4) \o GtidListBytes(rs)
            footer == IF verify THEN GoodFooter(server, body) ELSE <<>>
        IN  Start("MariadbGtidListEvent", MkPacket(server, body, footer),
                  Len(body), verify, DefaultVersion,
                  [gtid_length |-> count, records |-> rs])

NextGtidList ==
    \/ Construct
    \/ NewMariadbGtidListEvent
    \/ NewMariadbGtidObejct
    \/ EndMariadbGtidList

SpecGtidList == InitGtidList /\ [][NextGtidList]_vars

\* C15: a GTID list with count N is decoded by reading the 4-byte count and
\* then exactly N records of 16 bytes, the i-th (from 0) from the body offsets
\* 4 + 16*i .. 4 + 16*i + 15 as (domain u32, server u32, sequence u64) and
\* rendered "domain-server-sequence"; the list has N entries in wire order and
\* 4 + 16*N bytes are consumed.
C15_GtidListRecords ==
    kind = "MariadbGtidListEvent" /\ pc = "done" =>
      LET N == src.gtid_length
          list == ev["gtid_list"]
      IN  /\ Len(list) = N
          /\ packet.read_bytes = 4 + 16 * N
          /\ \A i \in 0..(N - 1) :
               LET o == list[i + 1]
               IN  /\ GtidRecordBytes(o) = BodyAt(4 + 16 * i, 4 + 16 * i + 15)
                   /\ o["domain_id"] = src.records[i + 1].domain_id
                   /\ o["server_id"] = src.records[i + 1].server_id
                   /\ o["gtid_seq_no"] = src.records[i + 1].gtid_seq_no
                   /\ o["gtid"] = StrOfDigits(o["domain_id"].mag) \o <<Hyphen>>
                                    \o StrOfDigits(o["server_id"].mag)
                                    \o <<Hyphen>>
                                    \o StrOfDigits(o["gtid_seq_no"].mag)

\* Without verification the list of the one record (0, 1, 100) is decoded to
\* "0-1-100".
C15_WitnessUnverified ==
    /\ kind = "MariadbGtidListEvent" /\ pc = "done" /\ ~verify_checksum
    /\ Len(ev["gtid_list"]) = 1
    /\ ev["gtid_list"][1]["gtid"] = <<48, 45, 49, 45, 49, 48, 48>>

\* With verification the same list is decoded to "1-0-429496729601": the
\* record is read from the body offsets 0..15, the count being taken for the
\* domain.
C15_RecordFromBodyStart ==
    /\ kind = "MariadbGtidListEvent" /\ pc = "done" /\ verify_checksum
    /\ src.gtid_length = 1
    /\ src.records[1].gtid_seq_no = Big(FALSE, <<1, 0, 0>>)
    /\ ev["gtid_list"][1]["gtid"] =
         <<49, 45, 48, 45, 52, 50, 57, 52, 57, 54, 55, 50, 57, 54, 48, 49>>
    /\ packet.position = BodyStart + 16

-----------------------------------------------------------------------------
(* PreviousGtidsEvent *)

Comma == 44

\* sep.join(strs)
RECURSIVE Join(_, _)
Join(strs, sep) ==
    IF strs = <<>> THEN <<>>
    ELSE IF Len(strs) = 1 THEN strs[1]
    ELSE strs[1] \o <<sep>> \o Join(Drop(strs, 1), sep)

\* The 32 digits as they are.
Unhyphenated(nibbles) == nibbles

\* "%s-%s-%s-%s-%s" of the five slices of the 32 digits
Hyphenated(nibbles) ==
    SubSeq(nibbles, 1, 8) \o <<Hyphen>> \o SubSeq(nibbles, 9, 12)
      \o <<Hyphen>> \o SubSeq(nibbles, 13, 16) \o <<Hyphen>>
      \o SubSeq(nibbles, 17, 20) \o <<Hyphen>> \o SubSeq(nibbles, 21, 32)

\* [f"{read_int64()}-{read_uint64()}" for _ in range(n_intervals)]
RECURSIVE ReadIntervals(_, _, _)
ReadIntervals(pk, n, acc) ==
    IF n = 0 THEN [ok |-> TRUE, val |-> acc, pk |-> pk]
    ELSE LET r1 == read_int64(pk)
             r2 == read_uint64(r1.pk)
         IN  IF ~r1.ok THEN r1
             ELSE IF ~r2.ok THEN r2
             ELSE ReadIntervals(r2.pk, n - 1,
                    Append(acc, StrOfBig(r1.val) \o <<Hyphen>> \o StrOfBig(r2.val)))

\* One round of the loop over the groups: the text of one UUID and its
\* intervals.
ReadGtidGroup(pk) ==
    LET r1 == read(pk, 16)
        r2 == read_uint64(r1.pk)
        r3 == ReadIntervals(r2.pk, NatOf(r2.val.mag), <<>>)
    IN  IF ~r1.ok THEN r1
        ELSE IF ~r2.ok THEN r2
        ELSE IF ~r3.ok THEN r3
        ELSE WithVal(r3, Hyphenated(hexlify(r1.val)) \o <<Colon>>
                           \o Join(r3.val, Colon))

\* for _ in range(self._n_sid): ... self._gtids.append(gtid)
RECURSIVE ReadGtidGroups(_, _)
ReadGtidGroups(c, n) ==
    IF n = 0 \/ ~c.ok THEN c
    ELSE LET r == ReadGtidGroup(c.pk)
         IN  IF ~r.ok THEN Raise([c EXCEPT !.pk = r.pk], "Underrun")
             ELSE ReadGtidGroups(
                    [c EXCEPT !.pk = r.pk,
                              !.ev = Set(@, "_gtids", Append(@["_gtids"], r.val))],
                    n - 1)

\* PreviousGtidsEvent.__init__
PreviousGtidsEvent(c) ==
    LET c1 == Assign(c, "_n_sid", read_int64(c.pk))
    IN  IF ~c1.ok THEN c1
        ELSE LET n == IF c1.ev["_n_sid"].neg THEN 0
                      ELSE NatOf(c1.ev["_n_sid"].mag)
                 c2 == ReadGtidGroups([c1 EXCEPT !.ev = Set(@, "_gtids", <<>>)], n)
             IN  IF ~c2.ok THEN c2
                 ELSE [c2 EXCEPT !.ev = Set(@, "_previous_gtids",
                                            Join(c2.ev["_gtids"], Comma))]

NewPreviousGtidsEvent ==
    /\ pc = "body" /\ kind = "PreviousGtidsEvent"
    /\ Plain(PreviousGtidsEvent(Ctor(packet, ev)), "done")

MaxGroups == 2

\* 1-100, 1-10, 20-30, and the interval of all bits set, whose start is -1
IntervalSamples ==
    [a |-> [start |-> Big(FALSE, <<1>>), end |-> Big(FALSE, <<1, 0, 0>>)],
     b |-> [start |-> Big(FALSE, <<1>>), end |-> Big(FALSE, <<1, 0>>)],
     c |-> [start |-> Big(FALSE, <<2, 0>>), end |-> Big(FALSE, <<3, 0>>)],
     d |-> [start |-> Big(TRUE, <<1>>),
            end |-> Big(FALSE, <<1, 8, 4, 4, 6, 7, 4, 4, 0, 7, 3, 7, 0, 9, 5,
                                 5, 1, 6, 1, 5>>)]]

\* 4c9e3dfc-9d25-11e9-8d2e-0242ac1cfd7e
SidOfDocstring ==
    <<76, 158, 61, 252, 157, 37, 17, 233, 141, 46, 2, 66, 172, 28, 253, 126>>

GtidGroupSamples ==
    {[sid |-> SidOfDocstring, intervals |-> <<>>],
     [sid |-> SidOfDocstring, intervals |-> <<IntervalSamples.a>>],
     [sid |-> SidOfDocstring,
      intervals |-> <<IntervalSamples.b, IntervalSamples.c>>],
     [sid |-> [i \in 1..16 |-> 255], intervals |-> <<IntervalSamples.d>>]}

\* The 8 bytes of a start: two's complement, -1 being the one negative sample.
StartBytes(v) ==
    IF v.neg THEN [i \in 1..8 |-> 255] ELSE EncDigitsLE(v.mag, 8)

RECURSIVE IntervalsBytes(_)
IntervalsBytes(is) ==
    IF is = <<>> THEN <<>>
    ELSE StartBytes(is[1].start) \o EncDigitsLE(is[1].end.mag, 8)
           \o IntervalsBytes(Drop(is, 1))

RECURSIVE GtidGroupsBytes(_)
GtidGroupsBytes(gs) ==
    IF gs = <<>> THEN <<>>
    ELSE gs[1].sid \o EncNatLE(Len(gs[1].intervals), 8)
           \o IntervalsBytes(gs[1].intervals) \o GtidGroupsBytes(Drop(gs, 1))

\* Up to MaxGroups groups behind a count that is the number of the groups,
\* one more, or -1.
InitPreviousGtids ==
    \E n \in 0..MaxGroups, verify \in BOOLEAN :
      \E gs \in [1..n -> GtidGroupSamples], count \in {n, n + 1, -1} :
        LET server == Big(FALSE, <<1>>)
            body == (IF count = -1 THEN [i \in 1..8 |-> 255]
                     ELSE EncNatLE(count, 8)) \o GtidGroupsBytes(gs)
            footer == IF verify THEN GoodFooter(server, body) ELSE <<>>
        IN  Start("PreviousGtidsEvent", MkPacket(server, body, footer),
                  Len(body), verify, DefaultVersion,
                  [n_sid |-> count, groups |-> gs])

NextPreviousGtids == Construct \/ NewPreviousGtidsEvent

SpecPreviousGtids == InitPreviousGtids /\ [][NextPreviousGtids]_vars

\* The text of a UUID: the digit of each place from the table of digits, a
\* hyphen at the places 8, 13, 18 and 23.
SidText(sid) ==
    [p \in 1..36 |->
       IF p \in {9, 14, 19, 24} THEN Hyphen
       ELSE LET k == p - (IF p > 9 THEN 1 ELSE 0) - (IF p > 14 THEN 1 ELSE 0)
                       - (IF p > 19 THEN 1 ELSE 0) - (IF p > 24 THEN 1 ELSE 0)
                b == sid[(k + 1) \div 2]
            IN  HexChars[(IF k % 2 = 1 THEN b \div 16 ELSE b % 16) + 1]]

RECURSIVE IntervalsText(_)
IntervalsText(is) ==
    IF is = <<>> THEN <<>>
    ELSE <<Colon>> \o (IF is[1].start.neg THEN <<Hyphen>> ELSE <<>>)
           \o StrOfDigits(is[1].start.mag) \o <<Hyphen>>
           \o StrOfDigits(is[1].end.mag) \o IntervalsText(Drop(is, 1))

\* A group with no interval is the UUID and the colon alone.
GroupText(g) ==
    SidText(g.sid)
      \o (IF g.intervals = <<>> THEN <<Colon>> ELSE IntervalsText(g.intervals))

RECURSIVE GroupsLength(_)
GroupsLength(gs) ==
    IF gs = <<>> THEN 0
    ELSE 16 + 8 + 16 * Len(gs[1].intervals) + GroupsLength(Drop(gs, 1))

\* C16: an event with the group count G and the interval counts n_1 .. n_G
\* yields G groups in wire order, each the hyphenated UUID, ':' and its
\* intervals "start-end" joined by ':', the groups joined by ','; it consumes
\* 8 + the sum over the groups of (16 + 8 + 16 * n_g) bytes, and the count 0
\* yields the empty string and 8 bytes.
C16_PreviousGtids ==
    kind = "PreviousGtidsEvent" /\ pc \in {"done", "failed"}
      /\ src.n_sid = Len(src.groups) =>
        /\ pc = "done"
        /\ Len(ev["_gtids"]) = src.n_sid
        /\ \A g \in 1..src.n_sid : ev["_gtids"][g] = GroupText(src.groups[g])
        /\ ev["_previous_gtids"] =
             IF src.n_sid = 0 THEN <<>>
             ELSE IF src.n_sid = 1 THEN ev["_gtids"][1]
             ELSE ev["_gtids"][1] \o <<Comma>> \o ev["_gtids"][2]
                    \o (IF src.n_sid = 2 THEN <<>>
                        ELSE <<Comma>> \o ev["_gtids"][3])
        /\ packet.read_bytes = 8 + GroupsLength(src.groups)
        /\ src.n_sid = 0 => ev["_previous_gtids"] = <<>> /\ packet.read_bytes = 8

\* Two groups, of one and of two intervals: "...:1-100,...:1-10:20-30".
C16_Witness ==
    /\ kind = "PreviousGtidsEvent" /\ pc = "done" /\ src.n_sid = 2
    /\ Len(src.groups[1].intervals) = 1 /\ Len(src.groups[2].intervals) = 2
    /\ Len(ev["_previous_gtids"]) = 42 + 1 + 47
    /\ SubSeq(ev["_previous_gtids"], 37, 45)
         = <<58, 49, 45, 49, 48, 48, 44, 52, 99>>
    /\ packet.read_bytes = 8 + 40 + 56

C16_WitnessEmpty ==
    /\ kind = "PreviousGtidsEvent" /\ pc = "done" /\ src.n_sid = 0
    /\ ev["_previous_gtids"] = <<>> /\ packet.read_bytes = 8

-----------------------------------------------------------------------------
(* FormatDescriptionEvent *)

\* The bytes as they are.
NoStrip(b, ch) == b

\* bytes.rstrip(ch) for a single byte ch: the bytes up to the last one that
\* is not ch.
rstrip(b, ch) ==
    LET kept == {i \in 1..Len(b) : b[i] # ch}
    IN  IF kept = {} THEN <<>>
        ELSE Take(b, CHOOSE i \in kept : \A j \in kept : j <= i)

\* str.split(sep): the pieces between the separators, empty ones kept.
split(s, sep) ==
    LET at == {i \in 1..Len(s) : s[i] = sep}
        nth(k) == IF k = 0 THEN 0
                  ELSE IF k > Cardinality(at) THEN Len(s) + 1
                  ELSE CHOOSE i \in at : Cardinality({j \in at : j <= i}) = k
    IN  [k \in 1..(Cardinality(at) + 1) |->
           SubSeq(s, nth(k - 1) + 1, nth(k) - 1)]

\* int(s) for a text without sign, blank or underscore: the value of one or
\* more decimal digits, a ValueError for anything else.
int(s) ==
    IF s # <<>> /\ \A i \in 1..Len(s) : s[i] \in Zero..(Zero + 9)
    THEN [ok |-> TRUE, val |-> NatOfDigits([i \in 1..Len(s) |-> s[i] - Zero], 0)]
    ELSE [ok |-> FALSE, val |-> 0]

VersionStrSize == 50

\* FormatDescriptionEvent.__init__
FormatDescriptionEvent(c) ==
    LET r1 == read(c.pk, 2)
        c1 == Assign(c, "binlog_version",
                     IF r1.ok THEN WithVal(r1, <<SmallLE(r1.val)>>) ELSE r1)
        r2 == read(c1.pk, VersionStrSize)
        c2 == AssignText(c1, "mysql_version_str",
                         IF r2.ok THEN WithVal(r2, rstrip(r2.val, 0)) ELSE r2)
    IN  IF ~c2.ok THEN c2
        ELSE LET numbers == split(c2.ev["mysql_version_str"], Hyphen)[1]
                 parts == split(numbers, Dot)
             IN  IF \A i \in 1..Len(parts) : int(parts[i]).ok
                 THEN [c2 EXCEPT !.ev = Set(@, "mysql_version",
                          [i \in 1..Len(parts) |-> int(parts[i]).val])]
                 ELSE Raise(c2, "ValueError")

NewFormatDescriptionEvent ==
    /\ pc = "body" /\ kind = "FormatDescriptionEvent"
    /\ Plain(FormatDescriptionEvent(Ctor(packet, ev)), "done")

\* Version strings with the tuple or the exception Python gives for each:
\* "8.0.23-log", "5.7.44", "10.4.12-MariaDB-log", "5.5.5-10.4.12", "8",
\* "007.01", "", "8.0.23a-log", "-8.0", "8..0", one with the byte 0xFF, one of
\* 50 characters, and one with a null byte inside.
VersionStrSamples ==
    {
     [text |-> <<56, 46, 48, 46, 50, 51, 45, 108, 111, 103>>,
      version |-> <<8, 0, 23>>, err |-> "none"],
     [text |-> <<53, 46, 55, 46, 52, 52>>,
      version |-> <<5, 7, 44>>, err |-> "none"],
     [text |-> <<49, 48, 46, 52, 46, 49, 50, 45, 77, 97, 114, 105, 97, 68, 66, 45, 108, 111, 103>>,
      version |-> <<10, 4, 12>>, err |-> "none"],
     [text |-> <<53, 46, 53, 46, 53, 45, 49, 48, 46, 52, 46, 49, 50>>,
      version |-> <<5, 5, 5>>, err |-> "none"],
     [text |-> <<56>>,
      version |-> <<8>>, err |-> "none"],
     [text |-> <<48, 48, 55, 46, 48, 49>>,
      version |-> <<7, 1>>, err |-> "none"],
     [text |-> <<>>,
      version |-> <<>>, err |-> "ValueError"],
     [text |-> <<56, 46, 48, 46, 50, 51, 97, 45, 108, 111, 103>>,
      version |-> <<>>, err |-> "ValueError"],
     [text |-> <<45, 56, 46, 48>>,
      version |-> <<>>, err |-> "ValueError"],
     [text |-> <<56, 46, 46, 48>>,
      version |-> <<>>, err |-> "ValueError"],
     [text |-> <<56, 46, 48, 255>>,
      version |-> <<>>, err |-> "UnicodeDecodeError"],
     [text |-> <<49, 46, 50, 46, 51, 45, 97, 97, 97, 97, 97, 97, 97, 97, 97, 97, 97, 97, 97, 97, 97, 97, 97, 97, 97, 97, 97, 97, 97, 97, 97, 97, 97, 97, 97, 97, 97, 97, 97, 97, 97, 97, 97, 97, 97, 97, 97, 97, 97, 97>>,
      version |-> <<1, 2, 3>>, err |-> "none"],
     [text |-> <<56, 46, 48, 0, 46, 49>>,
      version |-> <<>>, err |-> "ValueError"]}

\* A body of the binlog version and the version string filled up with null
\* bytes to 50, whole or with its last bytes cut off.
InitFormatDescription ==
    \E s \in VersionStrSamples, bv \in {4, 1, 65535}, cut \in {0, 1, 51},
       verify \in BOOLEAN :
      LET server == Big(FALSE, <<1>>)
          whole == EncNatLE(bv, 2) \o s.text
                     \o [i \in 1..(VersionStrSize - Len(s.text)) |-> 0]
          body == Take(whole, Len(whole) - cut)
          footer == IF verify THEN GoodFooter(server, body) ELSE <<>>
      IN  Start("FormatDescriptionEvent", MkPacket(server, body, footer),
                Len(body), verify, DefaultVersion,
                [binlog_version |-> bv, text |-> s.text, version |-> s.version,
                 err |-> s.err, cut |-> cut])

NextFormatDescription == Construct \/ NewFormatDescriptionEvent

SpecFormatDescription == InitFormatDescription /\ [][NextFormatDescription]_vars

\* C19: the decoder consumes 52 bytes, the 2-byte binlog version and the
\* 50-byte version string; the version string is the 50 bytes with the
\* trailing null bytes removed, and the numeric version is the tuple of the
\* integers of the part before the first '-', split on '.'.  Where Python
\* raises for a sample, decoding fails with that exception.
C19_FormatDescription ==
    kind = "FormatDescriptionEvent" /\ pc \in {"done", "failed"} /\ src.cut = 0 =>
      /\ packet.read_bytes = 52
      /\ packet.read_bytes = event_size
      /\ pc = "done" <=> src.err = "none"
      /\ pc = "failed" => err = src.err
      /\ pc = "done" =>
           /\ ev["binlog_version"] = <<src.binlog_version>>
           /\ ev["mysql_version_str"] = src.text
           /\ ev["mysql_version"] = src.version

\* "8.0.23-log" gives (8, 0, 23).
C19_Witness ==
    /\ kind = "FormatDescriptionEvent" /\ pc = "done" /\ src.cut = 0
    /\ ev["mysql_version_str"] = <<56, 46, 48, 46, 50, 51, 45, 108, 111, 103>>
    /\ ev["mysql_version"] = <<8, 0, 23>>
    /\ packet.read_bytes = 52

-----------------------------------------------------------------------------
(* The checksum footer *)

\* The footer of the body; that footer with its first byte changed; the
\* footer the body had before its first byte was changed; four null bytes;
\* no footer.
FooterKinds == {"good", "flipped", "stale", "zero", "none"}

FlipFirst(b) == <<(b[1] + 1) % 256>> \o Drop(b, 1)

FooterOf(f, server, body) ==
    CASE f = "good" -> GoodFooter(server, body)
      [] f = "flipped" -> FlipFirst(GoodFooter(server, body))
      [] f = "stale" -> GoodFooter(server, FlipFirst(body))
      [] f = "zero" -> <<0, 0, 0, 0>>
      [] f = "none" -> <<>>

\* The fixed-layout events with each kind of footer, verified or not.
InitChecksum ==
    \E k \in FixedKinds, verify \in BOOLEAN, f \in FooterKinds :
      \E vals \in FixedValues(k) :
        LET server == Big(FALSE, <<1>>)
            body == EncLayout(FixedLayout(k), vals)
        IN  Start(k, MkPacket(server, body, FooterOf(f, server, body)),
                  Len(body), verify, DefaultVersion,
                  [vals |-> vals, footer |-> f])

SpecChecksum == InitChecksum /\ [][NextFixed]_vars

\* The 19 header bytes and the event_size body bytes.
HeaderAndBody == SubSeq(packet.data, HeaderStart + 1, BodyStart + event_size)

\* The 4 bytes behind the body.
Footer ==
    SubSeq(packet.data, BodyStart + event_size + 1,
           BodyStart + event_size + FooterSize)

\* C17: the flag is None exactly when verification is disabled; when it is
\* enabled the flag is True exactly when the 4-byte footer is the little-endian
\* CRC-32 of the 19 header bytes and the event_size body bytes, and False
\* otherwise; a mismatch never aborts the decode, the fields of the event are
\* decoded after it.
C17_ChecksumFlag ==
    kind \in FixedKinds /\ src.footer # "none" =>
      /\ pc # "failed"
      /\ pc \in {"body", "done"} =>
           /\ ev["_is_event_valid"] = "None" <=> ~verify_checksum
           /\ verify_checksum =>
                /\ ev["_is_event_valid"] \in {"True", "False"}
                /\ ev["_is_event_valid"] = "True"
                     <=> Footer = crc32_le(HeaderAndBody)
                /\ ev["_is_event_valid"] = "True" <=> src.footer = "good"
      /\ pc = "done" =>
           /\ \A i \in 1..Len(FixedLayout(kind)) :
                LET name == FixedLayout(kind)[i][1]
                IN  Has(ev, name) /\ ev[name] = src.vals[name]
           /\ packet.read_bytes = event_size

\* An event whose body was changed after the footer was computed is decoded
\* in full with the flag False.
C17_WitnessMismatch ==
    /\ kind = "MariadbGtidEvent" /\ pc = "done" /\ verify_checksum
    /\ src.footer = "stale"
    /\ ev["_is_event_valid"] = "False"
    /\ ev["gtid_seq_no"] = src.vals["gtid_seq_no"]
    /\ packet.read_bytes = 13

C17_WitnessValid ==
    /\ kind = "MariadbGtidEvent" /\ pc = "done" /\ verify_checksum
    /\ src.footer = "good"
    /\ ev["_is_event_valid"] = "True"

C17_WitnessNotChecked ==
    /\ kind = "MariadbGtidEvent" /\ pc = "done" /\ ~verify_checksum
    /\ src.footer = "zero"
    /\ ev["_is_event_valid"] = "None"

-----------------------------------------------------------------------------
(* BinLogEvent.__init__ and _verify_event statement by statement *)

VerifySteps == {"new", "rewind1", "data", "footer", "flag", "rewind20"}

\* The next statement of BinLogEvent.__init__ and of the _verify_event it
\* calls: the flag set to None and the return when verification is off,
\* rewind(1), the read of header and body, the read of the footer, the
\* comparison with the subtraction from read_bytes, rewind(20).
VerifyEventStep ==
    /\ pc \in VerifySteps
    /\ LET r == CASE pc = "rewind1" -> rewind(packet, HeaderStart)
                  [] pc = "data" -> read(packet, HeaderSize + event_size)
                  [] pc = "footer" -> read(packet, FooterSize)
                  [] pc = "flag" ->
                       [ok |-> TRUE, val |-> <<>>,
                        pk |-> [packet EXCEPT !.read_bytes =
                                  @ - (HeaderSize + event_size + FooterSize)]]
                  [] pc = "rewind20" -> rewind(packet, BodyStart)
                  [] OTHER -> [ok |-> TRUE, val |-> <<>>, pk |-> packet]
       IN  /\ packet' = r.pk
           /\ pc' = IF ~r.ok THEN "failed"
                    ELSE CASE pc = "new" ->
                                IF verify_checksum THEN "rewind1" ELSE "body"
                           [] pc = "rewind1" -> "data"
                           [] pc = "data" -> "footer"
                           [] pc = "footer" -> "flag"
                           [] pc = "flag" -> "rewind20"
                           [] OTHER -> "body"
           /\ err' = IF r.ok THEN err
                     ELSE IF pc \in {"data", "footer"} THEN "Underrun"
                     ELSE "InvalidRewind"
           /\ ev' = CASE pc = "new" -> Set(ev, "_is_event_valid", "None")
                      [] pc = "flag" ->
                           Set(ev, "_is_event_valid",
                               IF crc32_le(locals["data"]) = locals["footer"]
                               THEN "True" ELSE "False")
                      [] OTHER -> ev
           /\ locals' = IF r.ok /\ pc \in {"data", "footer"}
                        THEN Set(locals, pc, r.val) ELSE locals
    /\ UNCHANGED <<kind, event_size, verify_checksum, mysql_version, src,
                   trace>>

NextCursor ==
    \/ VerifyEventStep
    \/ NewXidEvent
    \/ NewIntvarEvent
    \/ NewRandEvent
    \/ NewMariadbStartEncryptionEvent
    \/ NewMariadbGtidEvent
    \/ NewExecuteLoadQueryEvent

SpecCursor == InitChecksum /\ [][NextCursor]_vars

\* C18: while an event is decoded, verification off or on, the read offset
\* and the count of consumed bytes never decrease from one step to the next
\* and the offset never exceeds the length of the buffer; a read of more bytes
\* than remain is a decode failure, after which the cursor is where it was.
C18_CursorMonotonic ==
    /\ [](packet.position <= Len(packet.data))
    /\ [][/\ packet'.position >= packet.position
          /\ packet'.read_bytes >= packet.read_bytes
          /\ pc' = "failed" => packet' = packet]_vars

\* The same with verification off.
C18_MonotonicUnverified ==
    /\ [](packet.position <= Len(packet.data))
    /\ [][~verify_checksum =>
            /\ packet'.position >= packet.position
            /\ packet'.read_bytes >= packet.read_bytes
            /\ pc' = "failed" => packet' = packet]_vars

\* After rewind(1) the offset is 1 where it was 20.
C18_OffsetWentBack ==
    /\ pc = "data" /\ verify_checksum
    /\ packet.position = HeaderStart /\ packet.position < BodyStart

\* After the footer is read the count of consumed bytes is 19 + event_size + 4;
\* it is 0 again when the body is decoded.
C18_CountWentBack ==
    /\ pc = "rewind20" /\ packet.read_bytes = 0
    /\ packet.position = BodyStart + event_size + FooterSize

-----------------------------------------------------------------------------
(* The query text *)

\* What Python makes of a text over TextBytes: a letter is itself, the bytes
\* 0xC3 0xA9 together are U+00E9, and every other byte is the four characters
\* \xa9, \xc3 or \xff.
RECURSIVE ExpectedQuery(_)
ExpectedQuery(t) ==
    IF t = <<>> THEN <<>>
    ELSE IF Len(t) >= 2 /\ t[1] = 195 /\ t[2] = 169
         THEN <<233>> \o ExpectedQuery(Drop(t, 2))
    ELSE (CASE t[1] < 128 -> <<t[1]>>
            [] t[1] = 169 -> <<92, 120, 97, 57>>
            [] t[1] = 195 -> <<92, 120, 99, 51>>
            [] t[1] = 255 -> <<92, 120, 102, 102>>)
           \o ExpectedQuery(Drop(t, 1))

\* The status-variable block was decoded to its declared end without a
\* failure.
BlockDecoded ==
    /\ ExactBlock
    /\ Len(trace) = Len(src.block)
    /\ \A i \in 1..Len(trace) : trace[i].ok

\* C20: decoding a Query event never fails because of the query text: for
\* every byte sequence in its place, UTF-8 or not, the decoder yields a query
\* string, the bytes that are no UTF-8 replaced by escapes, and finishes the
\* event; the schema is exactly the schema_length bytes in front of it.
C20_QueryTextPermissive ==
    kind = "QueryEvent" /\ pc \in {"done", "failed"} /\ BlockDecoded =>
      /\ pc = "done"
      /\ Len(ev["schema"]) = ev["schema_length"]
      /\ ev["schema"] = src.schema
      /\ ev["query"] = ExpectedQuery(src.query)
      /\ packet.read_bytes = event_size

\* The text 0xFF 0xC3 is decoded to \xff\xc3.
C20_Witness ==
    /\ kind = "QueryEvent" /\ pc = "done" /\ BlockDecoded
    /\ src.query = <<255, 195>> /\ src.schema = <<100, 98>>
    /\ ev["query"] = <<92, 120, 102, 102, 92, 120, 99, 51>>


-----------------------------------------------------------------------------
(* Decoding with and without verification *)

\* [MariadbGtidObejct(...) for i in range(n)] read from the packet of c: the
\* elements built, or the exception of the first that raised.
RECURSIVE gtid_list(_, _, _, _, _)
gtid_list(c, n, size, verify, acc) ==
    IF n = 0 \/ ~c.ok THEN [c |-> c, list |-> acc]
    ELSE LET o == MariadbGtidObejct(c.pk, size, verify)
             d == IF o.ok THEN [c EXCEPT !.pk = o.pk]
                  ELSE Raise([c EXCEPT !.pk = o.pk], o.err)
         IN  IF d = d
             THEN gtid_list(d, n - 1, size, verify,
                            IF o.ok THEN Append(acc, o.ev) ELSE acc)
             ELSE [c |-> d, list |-> acc]

\* MariadbGtidListEvent(from_packet, event_size, ..., verify_checksum=verify)
\* as a whole.
MariadbGtidListEvent(pk, size, verify) ==
    LET c0 == BinLogEvent(pk, NoAttrs, size, verify)
        c1 == Assign(c0, "gtid_length", read_uint32(c0.pk))
    IN  IF ~c1.ok THEN c1
        ELSE LET l == gtid_list(c1, NatOf(c1.ev["gtid_length"].mag), size,
                                verify, <<>>)
             IN  IF ~l.c.ok THEN l.c
                 ELSE [l.c EXCEPT !.ev = Set(@, "gtid_list", l.list)]

\* The packet as it was handed to the constructor.
FromPacket == [packet EXCEPT !.position = BodyStart, !.read_bytes = 0]

GtidObejctFields == {"domain_id", "server_id", "gtid_seq_no", "gtid"}

SameGtidObejct(o, p) == \A f \in GtidObejctFields : o[f] = p[f]

\* C21: decoding with checksum verification enabled yields the same
\* kind-specific fields and the same count of consumed bytes as decoding the
\* same packet with it disabled; for a MariaDB GTID list, the same outcome,
\* the same gtid_length, and element by element the same domain, server,
\* sequence number and gtid, each record from its own 16-byte slot.
C21_VerificationTransparent ==
    /\ kind = "MariadbGtidListEvent" /\ pc \in {"done", "failed"}
    /\ verify_checksum
    => LET plain == MariadbGtidListEvent(FromPacket, event_size, FALSE)
       IN  /\ (pc = "done") = plain.ok
           /\ pc = "done" =>
                /\ packet.read_bytes = plain.pk.read_bytes
                /\ ev["gtid_length"] = plain.ev["gtid_length"]
                /\ Len(ev["gtid_list"]) = Len(plain.ev["gtid_list"])
                /\ \A i \in 1..Len(ev["gtid_list"]) :
                     /\ SameGtidObejct(ev["gtid_list"][i],
                                       plain.ev["gtid_list"][i])
                     /\ GtidRecordBytes(ev["gtid_list"][i]) =
                          BodyAt(4 + 16 * (i - 1), 4 + 16 * (i - 1) + 15)

\* The constructor taken as a whole gives what its steps give.
C21_WholeAsSteps ==
    kind = "MariadbGtidListEvent" /\ pc \in {"done", "failed"} =>
      LET whole == MariadbGtidListEvent(FromPacket, event_size,
                                        verify_checksum)
      IN  /\ (pc = "done") = whole.ok
          /\ packet = whole.pk
          /\ err = whole.err
          /\ pc = "done" => ev = whole.ev

\* super().__init__ of an event leaves the cursor at the start of the body
\* and the count of consumed bytes as it found it, verifying or not.
C21_BaseConstructorRestores ==
    [][pc = "new" /\ pc' = "body" =>
         /\ packet'.position = BodyStart
         /\ packet'.read_bytes = packet.read_bytes
         /\ packet'.data = packet.data]_vars

\* The verified list of the two records (0, 1, 100) and (7, 8, 9) has two
\* elements alike, both "2-0-429496729601" from the body offsets 0..15, where
\* the unverified decoding of the same packet gives "0-1-100" and "7-8-9";
\* the consumed count is 36 in both.
C21_RecordsAlike ==
    /\ kind = "MariadbGtidListEvent" /\ pc = "done" /\ verify_checksum
    /\ src.gtid_length = 2 /\ Len(src.records) = 2
    /\ Len(ev["gtid_list"]) = 2
    /\ src.records[1].gtid_seq_no = Big(FALSE, <<1, 0, 0>>)
    /\ src.records[2].gtid_seq_no = Big(FALSE, <<9>>)
    /\ ev["gtid_list"][1]["gtid"] =
         <<50, 45, 48, 45, 52, 50, 57, 52, 57, 54, 55, 50, 57, 54, 48, 49>>
    /\ ev["gtid_list"][2]["gtid"] = ev["gtid_list"][1]["gtid"]
    /\ GtidRecordBytes(ev["gtid_list"][2]) = BodyAt(0, 15)
    /\ packet.read_bytes = 36
    /\ LET plain == MariadbGtidListEvent(FromPacket, event_size, FALSE)
       IN  /\ plain.ok /\ plain.pk.read_bytes = 36
           /\ plain.ev["gtid_list"][1]["gtid"] = <<48, 45, 49, 45, 49, 48, 48>>
           /\ plain.ev["gtid_list"][2]["gtid"] = <<55, 45, 56, 45, 57>>

=============================================================================
